---- MODULE Spec2Model ----
(***************************************************************************)
(* Model of the piqnote commit-suggestion pipeline: the generators, the    *)
(* generator selector, the normalizer and formatter, the policy validator, *)
(* the suggestion orchestrator (buildSuggestions) and the interactive      *)
(* review loop of the commit command (commandCommit).                      *)
(*                                                                         *)
(* JavaScript strings are modelled as sequences of one-character strings,  *)
(* so that the regular expressions, slices and joins of the source are     *)
(* computed character by character.                                        *)
(***************************************************************************)
EXTENDS Integers, Sequences, FiniteSets, TLC

(***************************************************************************)
(* Text primitives (String.prototype and RegExp semantics)                 *)
(***************************************************************************)

LowerChars == <<"a","b","c","d","e","f","g","h","i","j","k","l","m",
                "n","o","p","q","r","s","t","u","v","w","x","y","z">>
UpperChars == <<"A","B","C","D","E","F","G","H","I","J","K","L","M",
                "N","O","P","Q","R","S","T","U","V","W","X","Y","Z">>
DigitChars == {"0","1","2","3","4","5","6","7","8","9"}

\* [a-z] under the /i flag
AlphaSet == {LowerChars[i] : i \in 1..26} \cup {UpperChars[i] : i \in 1..26}
\* \w
WordSet == AlphaSet \cup DigitChars \cup {"_"}
\* \s
SpaceSet == {" ", "\t", "\n", "\r"}
\* the complement of "." (line terminators)
LineTerminators == {"\n", "\r"}
\* [.!?;:,]
PunctSet == {".", "!", "?", ";", ":", ","}

LowerOf == [c \in {UpperChars[i] : i \in 1..26} |->
              LowerChars[CHOOSE i \in 1..26 : UpperChars[i] = c]]

ToLowerC(c) == IF c \in DOMAIN LowerOf THEN LowerOf[c] ELSE c

\* String.prototype.toLowerCase (the concatenation makes the result a tuple)
ToLower(s) == [i \in 1..Len(s) |-> ToLowerC(s[i])] \o <<>>

Min(a, b) == IF a < b THEN a ELSE b
Max(a, b) == IF a > b THEN a ELSE b

\* s.slice(0, n) for n >= 0
Take(s, n) == SubSeq(s, 1, Min(n, Len(s)))
\* s.slice(n) for n >= 0
Drop(s, n) == SubSeq(s, Min(n, Len(s)) + 1, Len(s))

\* length of the longest prefix of s whose characters are all in set cs
LeadingCount(s, cs) ==
  CHOOSE n \in 0..Len(s) :
    /\ (n = Len(s) \/ s[n + 1] \notin cs)
    /\ \A i \in 1..n : s[i] \in cs

\* length of the longest suffix of s whose characters are all in set cs
TrailingCount(s, cs) ==
  CHOOSE n \in 0..Len(s) :
    /\ (n = Len(s) \/ s[Len(s) - n] \notin cs)
    /\ \A i \in (Len(s) - n + 1)..Len(s) : s[i] \in cs

\* String.prototype.trimEnd
TrimEnd(s) == Take(s, Len(s) - TrailingCount(s, SpaceSet))
\* String.prototype.trimStart
TrimStart(s) == Drop(s, LeadingCount(s, SpaceSet))
\* String.prototype.trim
Trim(s) == TrimStart(TrimEnd(s))
\* lines.map((line) => line.trim())
TrimAll(lines) == [i \in 1..Len(lines) |-> Trim(lines[i])] \o <<>>

\* a || b on strings and on lists tested by their length
OrElse(a, b) == IF Len(a) > 0 THEN a ELSE b

\* String.prototype.indexOf for one character, from 1; 0 stands for -1
IndexOf(s, c) ==
  IF \E i \in 1..Len(s) : s[i] = c
  THEN CHOOSE i \in 1..Len(s) : s[i] = c /\ \A j \in 1..(i - 1) : s[j] # c
  ELSE 0

\* p occurs in s at index i (1-based)
OccursAt(s, p, i) ==
  /\ i >= 1
  /\ i + Len(p) - 1 <= Len(s)
  /\ \A k \in 1..Len(p) : s[i + k - 1] = p[k]

\* String.prototype.startsWith
StartsWith(s, p) == OccursAt(s, p, 1)
\* String.prototype.includes
Includes(s, p) == \E i \in 1..(Len(s) + 1) : OccursAt(s, p, i)

\* /p\b/ for a pattern p that ends in a word character: p occurs and is
\* followed by a non-word character or by the end of the text
IncludesWordEnd(s, p) ==
  \E i \in 1..Len(s) :
    /\ OccursAt(s, p, i)
    /\ (i + Len(p) - 1 = Len(s) \/ s[i + Len(p)] \notin WordSet)

\* the text before index i, the whole text when i = 0
Before(s, i) == IF i = 0 THEN s ELSE Take(s, i - 1)
\* the text before the first "\n": text.split("\n")[0]
FirstLine(s) == Before(s, IndexOf(s, "\n"))

RECURSIVE JoinLines(_)
\* lines.join("\n")
JoinLines(lines) ==
  IF Len(lines) = 0 THEN <<>>
  ELSE IF Len(lines) = 1 THEN lines[1]
  ELSE lines[1] \o <<"\n">> \o JoinLines(Tail(lines))

\* the elements of a sequence
Range(seq) == {seq[i] : i \in 1..Len(seq)}

(***************************************************************************)
(* String constants of the source                                          *)
(***************************************************************************)

\* 'feat'
T_feat == <<"f","e","a","t">>
\* 'fix'
T_fix == <<"f","i","x">>
\* 'chore'
T_chore == <<"c","h","o","r","e">>
\* 'docs'
T_docs == <<"d","o","c","s">>
\* 'refactor'
T_refactor == <<"r","e","f","a","c","t","o","r">>
\* 'perf'
T_perf == <<"p","e","r","f">>
\* 'test'
T_test == <<"t","e","s","t">>
\* 'build'
T_build == <<"b","u","i","l","d">>
\* 'ci'
T_ci == <<"c","i">>
\* 'style'
T_style == <<"s","t","y","l","e">>
\* 'revert'
T_revert == <<"r","e","v","e","r","t">>
\* 'update'
V_update == <<"u","p","d","a","t","e">>
\* 'misc'
V_misc == <<"m","i","s","c">>
\* 'stuff'
V_stuff == <<"s","t","u","f","f">>
\* 'various'
V_various == <<"v","a","r","i","o","u","s">>
\* 'changes'
V_changes == <<"c","h","a","n","g","e","s">>
\* 'updates'
B_updates == <<"u","p","d","a","t","e","s">>
\* 'updated'
B_updated == <<"u","p","d","a","t","e","d">>
\* 'updating'
B_updating == <<"u","p","d","a","t","i","n","g">>
\* 'fixes'
B_fixes == <<"f","i","x","e","s">>
\* 'fixed'
B_fixed == <<"f","i","x","e","d">>
\* 'fixing'
B_fixing == <<"f","i","x","i","n","g">>
\* 'adds'
B_adds == <<"a","d","d","s">>
\* 'added'
B_added == <<"a","d","d","e","d">>
\* 'adding'
B_adding == <<"a","d","d","i","n","g">>
\* 'please'
B_please == <<"p","l","e","a","s","e">>
\* 'node_modules'
A_node_modules == <<"n","o","d","e","_","m","o","d","u","l","e","s">>
\* 'dist'
A_dist == <<"d","i","s","t">>
\* 'coverage'
A_coverage == <<"c","o","v","e","r","a","g","e">>
\* '.turbo/'
A_turbo == <<".","t","u","r","b","o","/">>
\* 'dist/'
A_distSlash == <<"d","i","s","t","/">>
\* 'build/'
A_buildSlash == <<"b","u","i","l","d","/">>
\* 'ts'
X_ts == <<"t","s">>
\* 'js'
X_js == <<"j","s">>
\* 'jsx'
X_jsx == <<"j","s","x">>
\* 'tsx'
X_tsx == <<"t","s","x">>
\* 'json'
X_json == <<"j","s","o","n">>
\* 'md'
X_md == <<"m","d">>
\* 'css'
X_css == <<"c","s","s">>
\* 'scss'
X_scss == <<"s","c","s","s">>
\* 'yml'
X_yml == <<"y","m","l">>
\* 'yaml'
X_yaml == <<"y","a","m","l">>
\* 'lock'
X_lock == <<"l","o","c","k">>
\* 'log'
X_log == <<"l","o","g">>
\* 'env'
X_env == <<"e","n","v">>
\* 'core'
S_core == <<"c","o","r","e">>
\* '-'
S_dash == <<"-">>
\* '...'
S_ellipsis == <<".",".",".">>
\* ': '
S_colonSpace == <<":"," ">>
\* 'subject'
S_subject == <<"s","u","b","j","e","c","t">>
\* 'Updates around '
S_updatesAround == <<"U","p","d","a","t","e","s"," ","a","r","o","u","n","d"," ">>
\* ' updates: '
S_updatesColon == <<" ","u","p","d","a","t","e","s",":"," ">>
\* ', '
S_commaSpace == <<","," ">>

(***************************************************************************)
(* Policy: parseSubject, normalizeSubject, sanitizeBullets,                *)
(* validateCommitContent (cli.ts)                                          *)
(***************************************************************************)

ARTIFACT_WORDS == {A_node_modules, A_coverage, A_turbo}
ARTIFACT_WORD_ENDS == {A_dist, T_build}
FILE_EXTENSIONS == {X_ts, X_js, X_jsx, X_tsx, X_json, X_md, X_css, X_scss,
                    X_yml, X_yaml, X_lock, X_log, X_env}
VAGUE_TERMS == {V_update, V_misc, V_stuff, V_various, V_changes}

\* ARTIFACT_PATTERNS.some((re) => re.test(text)):
\* /node_modules/i, /dist\b/i, /build\b/i, /coverage/i, /\.turbo\//i
ArtifactIn(low) ==
  \/ \E w \in ARTIFACT_WORDS : Includes(low, w)
  \/ \E w \in ARTIFACT_WORD_ENDS : IncludesWordEnd(low, w)

containsArtifacts(text) == ArtifactIn(ToLower(text))

\* FILE_MENTION = /\b\w+\.(ts|js|...|env)\b/i
FileMentionIn(low) ==
  \E i \in 2..Len(low) :
    /\ low[i] = "."
    /\ low[i - 1] \in WordSet
    /\ \E ext \in FILE_EXTENSIONS :
         /\ OccursAt(low, ext, i + 1)
         /\ (i + Len(ext) = Len(low) \/ low[i + Len(ext) + 1] \notin WordSet)

FILE_MENTION(text) == FileMentionIn(ToLower(text))

\* PATH_MENTION = /[\\/]/
PATH_MENTION(text) == \E i \in 1..Len(text) : text[i] \in {"/", "\\"}

containsFiles(text) == FILE_MENTION(text) \/ PATH_MENTION(text)

VagueIn(low) == \E term \in VAGUE_TERMS : Includes(low, term)
containsVague(text) == VagueIn(ToLower(text))

\* Math.max(1, limit) entries survive the final slice of sanitizeBullets
BulletKept(b) ==
  /\ Len(b) > 0
  /\ ~containsArtifacts(b)
  /\ ~FILE_MENTION(b)
  /\ ~PATH_MENTION(b)
  /\ ToLower(b) \notin VAGUE_TERMS

RECURSIVE SelectKept(_)
SelectKept(bs) ==
  IF Len(bs) = 0 THEN <<>>
  ELSE (IF BulletKept(bs[1]) THEN <<bs[1]>> ELSE <<>>) \o SelectKept(Tail(bs))

sanitizeBullets(items, limit) == Take(SelectKept(TrimAll(items)), Max(1, limit))

\* bullets that never fall back on the diff's bullet candidates
CandidateBulletsOnly(candidate, fallback, limit) == sanitizeBullets(candidate, limit)

\* clean.length ? clean : sanitizeBullets(fallback, limit)
ensureBullets(candidate, fallback, limit) ==
  OrElse(sanitizeBullets(candidate, limit), sanitizeBullets(fallback, limit))

\* the value parseSubject returns for "no match" (null)
NoParse == [ok |-> FALSE, type |-> <<>>, scope |-> <<>>,
            description |-> <<>>, breaking |-> FALSE]

\* (?:\((?<scope>[^)]+)\))? at the start of r, whose first ")" is at index
\* close: the scope (<<>> stands for undefined) and what follows the group
ScopeGroup(r, close) ==
  IF Len(r) > 0 /\ r[1] = "(" /\ close >= 3
  THEN [scope |-> SubSeq(r, 2, close - 1), rest |-> Drop(r, close)]
  ELSE [scope |-> <<>>, rest |-> r]

\* (?<breaking>!)? at the start of r
BreakingGroup(r) ==
  IF Len(r) > 0 /\ r[1] = "!" THEN [breaking |-> TRUE, rest |-> Tail(r)]
  ELSE [breaking |-> FALSE, rest |-> r]

\* (?<desc>.+)$ when only white space follows the colon: \s+ gives back
\* the last `back` characters, none of them a line terminator
DescBack(r, back) ==
  [ok |-> back >= 1,
   desc |-> IF back >= 1 THEN SubSeq(r, Len(r) - back + 1, Len(r)) ELSE <<>>]

\* \s+(?<desc>.+)$ on r, which starts with k white space characters
\* followed by rem
DescOf(r, k, rem) ==
  IF Len(rem) > 0
  THEN [ok |-> k >= 1 /\ \A i \in 1..Len(rem) : rem[i] \notin LineTerminators,
        desc |-> rem]
  ELSE DescBack(r, Min(k - 1, Len(r) - k
                                + TrailingCount(r, SpaceSet \ LineTerminators)))

DescAt(r, k) == DescOf(r, k, Drop(r, k))

\* :\s+(?<desc>.+)$ on r
DescGroup(r) ==
  IF Len(r) > 0 /\ r[1] = ":" THEN DescAt(Tail(r), LeadingCount(Tail(r), SpaceSet))
  ELSE [ok |-> FALSE, desc |-> <<>>]

ParsedSubject(type, sg, bg, dg) ==
  IF Len(type) >= 1 /\ dg.ok
  THEN [ok |-> TRUE, type |-> ToLower(type), scope |-> sg.scope,
        description |-> Trim(dg.desc), breaking |-> bg.breaking]
  ELSE NoParse

ParseAfterBreaking(type, sg, bg) == ParsedSubject(type, sg, bg, DescGroup(bg.rest))
ParseAfterScope(type, sg) == ParseAfterBreaking(type, sg, BreakingGroup(sg.rest))
ParseAfterType(type, r) == ParseAfterScope(type, ScopeGroup(r, IndexOf(r, ")")))
ParseAt(subj, t) == ParseAfterType(Take(subj, t), Drop(subj, t))

\* /^(?<type>[a-z]+)(?:\((?<scope>[^)]+)\))?(?<breaking>!)?:\s+(?<desc>.+)$/i
parseSubject(subj) == ParseAt(subj, LeadingCount(subj, AlphaSet))

\* text.replace(/[.!?;:,]+$/g, "")
stripTrailingPunctuation(text) == Take(text, Len(text) - TrailingCount(text, PunctSet))

IMPERATIVE_BLACKLIST == {B_updates, B_updated, B_updating, B_fixes, B_fixed,
                         B_fixing, B_adds, B_added, B_adding, B_please}

\* desc.trim().split(/\s+/)[0]?.toLowerCase() of a trimmed text
FirstWord(d) == ToLower(Take(d, LeadingCount(d, Range(d) \ SpaceSet)))

\* a blacklist that also bans the base form "update"
BaseFormBlacklisted(first) ==
  IF Len(first) = 0 THEN FALSE
  ELSE first \notin (IMPERATIVE_BLACKLIST \cup {V_update})

NotBlacklisted(first) ==
  IF Len(first) = 0 THEN FALSE ELSE first \notin IMPERATIVE_BLACKLIST

toImperative(desc) == NotBlacklisted(FirstWord(Trim(desc)))

Parenthesized(scope) ==
  IF Len(scope) > 0 THEN <<"(">> \o scope \o <<")">> ELSE <<>>

\* a scope choice that never injects the fallback
ScopeKept(parsed, fallbackScope) == parsed.scope

\* needsScope ? scopeFallback : parsed.scope
ScopeFor(parsed, fallbackScope) ==
  IF parsed.type \in {T_feat, T_fix} /\ Len(parsed.scope) = 0
  THEN fallbackScope ELSE parsed.scope

NormalizeParsed(parsed, trimmed, fallbackScope) ==
  IF parsed.ok
  THEN parsed.type \o Parenthesized(ScopeFor(parsed, fallbackScope))
       \o (IF parsed.breaking THEN <<"!">> ELSE <<>>)
       \o S_colonSpace \o parsed.description
  ELSE T_chore \o <<"(">> \o fallbackScope \o <<")">> \o S_colonSpace \o trimmed

NormalizeTrimmed(trimmed, fallbackScope) ==
  NormalizeParsed(parseSubject(trimmed), trimmed, fallbackScope)

normalizeSubject(subj, fallbackScope) ==
  NormalizeTrimmed(stripTrailingPunctuation(Trim(subj)), fallbackScope)

ALLOWED_TYPES == {T_feat, T_fix, T_chore, T_docs, T_refactor, T_perf, T_test,
                  T_build, T_ci, T_style, T_revert}

\* config.commit?.maxSubjectLength || 72 and config.commit?.maxBullets || 2
DefaultSubjectLength == 72
DefaultMaxBullets == 2
SubjectLimit(cfg) ==
  IF cfg.maxSubjectLength = 0 THEN DefaultSubjectLength ELSE cfg.maxSubjectLength
BulletLimit(cfg) ==
  IF cfg.maxBullets = 0 THEN DefaultMaxBullets ELSE cfg.maxBullets

RECURSIVE BulletReasons(_)
\* the reasons of bullets.forEach(...), in order
BulletReasons(items) ==
  IF Len(items) = 0 THEN <<>>
  ELSE (IF containsArtifacts(items[1]) \/ containsFiles(items[1])
        THEN <<"bullet-artifacts">> ELSE <<>>)
       \o (IF containsVague(items[1]) THEN <<"bullet-vague">> ELSE <<>>)
       \o BulletReasons(Tail(items))

\* the reasons of the if (!parsed) ... else ... of validateCommitContent
ParsedReasons(parsed) ==
  IF ~parsed.ok THEN <<"conventional">>
  ELSE (IF parsed.type \notin ALLOWED_TYPES THEN <<"type">> ELSE <<>>)
       \o (IF parsed.type \in {T_feat, T_fix} /\ Len(parsed.scope) = 0
           THEN <<"scope">> ELSE <<>>)
       \o (IF Len(parsed.description) = 0 THEN <<"description">> ELSE <<>>)
       \o (IF ~toImperative(parsed.description) THEN <<"imperative">> ELSE <<>>)
       \o (IF TrailingCount(parsed.description, PunctSet) > 0
           THEN <<"punctuation">> ELSE <<>>)

\* the reasons list of validateCommitContent, one tag per pushed message
ValidationReasons(subj, items, cfg) ==
  ParsedReasons(parseSubject(subj))
    \o (IF Len(subj) > SubjectLimit(cfg) THEN <<"length">> ELSE <<>>)
    \o (IF containsArtifacts(subj) \/ containsFiles(subj)
        THEN <<"artifacts">> ELSE <<>>)
    \o (IF containsVague(subj) THEN <<"vague">> ELSE <<>>)
    \o (IF Len(items) > BulletLimit(cfg) THEN <<"too-many-bullets">> ELSE <<>>)
    \o BulletReasons(items)

\* { valid: reasons.length === 0, reasons }
Verdict(reasons) == [valid |-> Len(reasons) = 0, reasons |-> reasons]
validateCommitContent(subj, items, cfg) == Verdict(ValidationReasons(subj, items, cfg))

(***************************************************************************)
(* Formatter: truncate, ensureConventional, formatCommit                   *)
(* (formatter/commitFormatter.ts)                                          *)
(***************************************************************************)

truncate(text, max) ==
  IF Len(text) <= max THEN text
  ELSE TrimEnd(Take(text, Max(0, max - 3))) \o S_ellipsis

CONVENTIONAL_TYPES == {T_feat, T_fix, T_chore, T_docs, T_refactor, T_test,
                       T_perf, T_build, T_ci, T_style, T_revert}

\* (\(.+\))?: on what follows the type
ConventionalRest(r) ==
  \/ (Len(r) > 0 /\ r[1] = ":")
  \/ /\ Len(r) > 0 /\ r[1] = "("
     /\ \E p \in 3..(Len(r) - 1) :
          /\ r[p] = ")"
          /\ r[p + 1] = ":"
          /\ \A q \in 2..(p - 1) : r[q] \notin LineTerminators

\* /^(feat|fix|chore|docs|refactor|test|perf|build|ci|style|revert)(\(.+\))?:/
conventionalRegex(subj) ==
  \E ty \in CONVENTIONAL_TYPES :
    StartsWith(subj, ty) /\ ConventionalRest(Drop(subj, Len(ty)))

ensureConventional(subj, scope) ==
  IF conventionalRegex(subj) THEN subj
  ELSE IF Len(scope) > 0
       THEN T_chore \o <<"(">> \o scope \o <<")">> \o S_colonSpace \o subj
       ELSE T_chore \o S_colonSpace \o subj

\* the types ty for which /^(feat|fix)(!?:)/ matches with $1 = ty
ScopeFixTypes(baseSubject) ==
  {ty \in {T_feat, T_fix} : \/ StartsWith(baseSubject, ty \o <<":">>)
                            \/ StartsWith(baseSubject, ty \o <<"!", ":">>)}

InsertScope(types, baseSubject, desiredScope) ==
  IF types = {} THEN baseSubject
  ELSE (CHOOSE ty \in types : TRUE) \o <<"(">> \o desiredScope \o <<")">>
       \o Drop(baseSubject, Len(CHOOSE ty \in types : TRUE))

\* baseSubject.replace(/^(feat|fix)(!?:)/, `$1(${desiredScope})$2`)
withScopeFix(baseSubject, desiredScope) ==
  InsertScope(ScopeFixTypes(baseSubject), baseSubject, desiredScope)

\* config.scope || payload.insightsScope || "core"
DesiredScope(cfg, insightsScope) ==
  IF Len(cfg.scope) > 0 THEN cfg.scope
  ELSE IF Len(insightsScope) > 0 THEN insightsScope ELSE S_core

FormatBase(baseSubject, desiredScope, style) ==
  IF style = "conventional"
  THEN ensureConventional(withScopeFix(baseSubject, desiredScope), desiredScope)
  ELSE baseSubject

\* the subject line formatCommit produces
formatSubject(subj, insightsScope, cfg) ==
  FormatBase(truncate(subj, SubjectLimit(cfg)), DesiredScope(cfg, insightsScope),
             cfg.style)

RECURSIVE SelectNonEmpty(_)
SelectNonEmpty(bs) ==
  IF Len(bs) = 0 THEN <<>>
  ELSE (IF Len(bs[1]) > 0 THEN <<bs[1]>> ELSE <<>>) \o SelectNonEmpty(Tail(bs))

\* .map((b) => `${bulletPrefix} ${b}`)
PrefixAll(kept, prefix) ==
  [i \in 1..Len(kept) |-> prefix \o <<" ">> \o kept[i]] \o <<>>

\* the bullet lines formatCommit produces
formatBullets(items, cfg) ==
  PrefixAll(Take(SelectNonEmpty(TrimAll(items)), BulletLimit(cfg)), cfg.bulletPrefix)

formatCommit(subj, items, insightsScope, cfg) ==
  JoinLines(<<formatSubject(subj, insightsScope, cfg)>>
            \o formatBullets(items, cfg))

(***************************************************************************)
(* Generators: LocalAiProvider, MockAiProvider, OpenAiProvider (ai/)       *)
(***************************************************************************)

\* 'PIQNOTE_GITHUB_TOKEN'
E_PIQNOTE_GITHUB_TOKEN == <<"P","I","Q","N","O","T","E","_","G","I","T","H","U","B","_","T","O","K","E","N">>
\* 'GITHUB_MODELS_TOKEN'
E_GITHUB_MODELS_TOKEN == <<"G","I","T","H","U","B","_","M","O","D","E","L","S","_","T","O","K","E","N">>
\* 'GITHUB_MODEL_TOKEN'
E_GITHUB_MODEL_TOKEN == <<"G","I","T","H","U","B","_","M","O","D","E","L","_","T","O","K","E","N">>
\* 'GITHUB_FINE_GRAINED_TOKEN'
E_GITHUB_FINE_GRAINED_TOKEN == <<"G","I","T","H","U","B","_","F","I","N","E","_","G","R","A","I","N","E","D","_","T","O","K","E","N">>
\* 'GITHUB_FINEGRAINED_TOKEN'
E_GITHUB_FINEGRAINED_TOKEN == <<"G","I","T","H","U","B","_","F","I","N","E","G","R","A","I","N","E","D","_","T","O","K","E","N">>
\* 'GITHUB_PAT'
E_GITHUB_PAT == <<"G","I","T","H","U","B","_","P","A","T">>
\* 'GITHUB_TOKEN'
E_GITHUB_TOKEN == <<"G","I","T","H","U","B","_","T","O","K","E","N">>
\* 'OPENAI_API_KEY'
E_OPENAI_API_KEY == <<"O","P","E","N","A","I","_","A","P","I","_","K","E","Y">>
\* 'env:'
S_envPrefix == <<"e","n","v",":">>
\* 'refine'
M_refine == <<"r","e","f","i","n","e">>
\* 'fix'
M_fix == <<"f","i","x">>
\* 'add'
M_add == <<"a","d","d">>
\* 'improve'
M_improve == <<"i","m","p","r","o","v","e">>
\* 'update'
M_update == <<"u","p","d","a","t","e">>
\* 'tune'
M_tune == <<"t","u","n","e">>
\* 'adjust'
M_adjust == <<"a","d","j","u","s","t">>
\* 'harden'
M_harden == <<"h","a","r","d","e","n">>
\* 'align'
M_align == <<"a","l","i","g","n">>
\* 'streamline'
M_streamline == <<"s","t","r","e","a","m","l","i","n","e">>

\* the slice(0, 72) of the generators
GeneratorSubjectMax == 72
\* the slice(0, 2) of the generators' sanitizeBullets
GeneratorBulletMax == 2
\* the slice(0, 5) of parseContent
ContentBulletMax == 5

BLOCKED_WORDS == {A_node_modules, A_distSlash, A_buildSlash}

RECURSIVE SelectUnblocked(_)
SelectUnblocked(lines) ==
  IF Len(lines) = 0 THEN <<>>
  ELSE (IF Len(lines[1]) > 0 /\ ~\E w \in BLOCKED_WORDS : Includes(ToLower(lines[1]), w)
        THEN <<lines[1]>> ELSE <<>>) \o SelectUnblocked(Tail(lines))

\* line.replace(/^[+-]/, "").trim()
StripMarker(line) ==
  Trim(IF Len(line) > 0 /\ line[1] \in {"+", "-"} THEN Tail(line) ELSE line)

StripAllMarkers(lines) == [i \in 1..Len(lines) |-> StripMarker(lines[i])] \o <<>>

\* sanitizeBullets of localProvider.ts and of the mock provider
providerSanitizeBullets(lines) ==
  Take(SelectUnblocked(StripAllMarkers(lines)), GeneratorBulletMax)

ScopePrefix(ins) ==
  IF Len(ins.scope) > 0 THEN ins.scope \o S_colonSpace ELSE <<>>

\* LocalAiProvider.generate
LocalGenerate(ins) ==
  [subject |-> Trim(Take(ScopePrefix(ins) \o ins.summary, GeneratorSubjectMax)),
   bullets |-> providerSanitizeBullets(ins.bulletPoints)]

\* insights.topics[i] || insights.summary
LeadOf(ins, i) ==
  IF i + 1 <= Len(ins.topics) THEN OrElse(ins.topics[i + 1], ins.summary)
  ELSE ins.summary

\* the i-th candidate (i from 0) of LocalAiProvider.generateMany
LocalCandidate(ins, i) ==
  [subject |-> Trim(Take(ScopePrefix(ins) \o LeadOf(ins, i), GeneratorSubjectMax)),
   bullets |-> providerSanitizeBullets(Drop(ins.bulletPoints, i))]

\* LocalAiProvider.generateMany
LocalGenerateMany(ins, count) ==
  [k \in 1..Max(0, count) |-> LocalCandidate(ins, k - 1)] \o <<>>

verbs == <<M_refine, M_fix, M_add, M_improve, M_update, M_tune, M_adjust,
           M_harden, M_align, M_streamline>>

pickVerb(seed) == verbs[(seed % Len(verbs)) + 1]

\* topics[seed % topics.length]; <<>> stands for undefined
TopicAt(topics, seed) ==
  IF Len(topics) > 0 THEN topics[(seed % Len(topics)) + 1] ELSE <<>>

\* buildSubject of the mock provider; a falsy (undefined or empty) value
\* falls through the || chain
buildSubject(ins, seed) ==
  Trim(pickVerb(seed) \o <<" ">> \o ScopePrefix(ins)
       \o OrElse(TopicAt(ins.topics, seed),
                 OrElse(TopicAt(ins.topics, 0), OrElse(ins.summary, V_changes))))

\* MockAiProvider.generate
MockGenerate(ins) ==
  [subject |-> Take(buildSubject(ins, 0), GeneratorSubjectMax),
   bullets |-> providerSanitizeBullets(ins.bulletPoints)]

\* MockAiProvider.generateMany
MockGenerateMany(ins, count) ==
  [k \in 1..Max(0, count) |->
     [subject |-> Take(buildSubject(ins, k - 1), GeneratorSubjectMax),
      bullets |-> providerSanitizeBullets(Drop(ins.bulletPoints, k - 1))]] \o <<>>

\* verbs of mockProvider.ts
mockVerbs == <<M_refine, M_fix, M_add, M_improve, M_update, M_tune, M_adjust,
               M_harden>>

\* pickVerb of mockProvider.ts: verbs[Math.floor(Math.random() * verbs.length)],
\* r being the index the random number gives
pickRandomVerb(r) == mockVerbs[r + 1]

\* insights.topics[0] || "changes"
primaryTopic(ins) ==
  IF Len(ins.topics) > 0 THEN OrElse(ins.topics[1], V_changes) ELSE V_changes

\* MockAiProvider.generate of mockProvider.ts, the random index being r
RandomMockGenerate(ins, r) ==
  [subject |-> Trim(pickRandomVerb(r) \o <<" ">> \o ScopePrefix(ins)
                    \o primaryTopic(ins)),
   bullets |-> StripAllMarkers(Take(ins.bulletPoints, 5))]

\* the \r? of /\r?\n/ at the end of a piece
StripCR(line) ==
  IF Len(line) > 0 /\ line[Len(line)] = "\r" THEN Take(line, Len(line) - 1)
  ELSE line

RECURSIVE SplitLines(_)
\* the split at index i, the first "\n" of the text; 0 stands for none
SplitAt(text, i) ==
  IF i = 0 THEN <<text>>
  ELSE <<StripCR(Take(text, i - 1))>> \o SplitLines(Drop(text, i))

\* content.split(/\r?\n/)
SplitLines(text) == SplitAt(text, IndexOf(text, "\n"))

\* lines[0].replace(/^subject[:\-]\s*/i, "")
StripSubjectLabel(line) ==
  IF /\ StartsWith(ToLower(line), S_subject)
     /\ Len(line) > Len(S_subject)
     /\ line[Len(S_subject) + 1] \in {":", "-"}
  THEN TrimStart(Drop(line, Len(S_subject) + 1))
  ELSE line

\* /^[-*\u2022]/ ; "U+2022" stands for the one character U+2022
BulletMarks == {"-", "*", "U+2022"}

RECURSIVE SelectMarked(_)
SelectMarked(lines) ==
  IF Len(lines) = 0 THEN <<>>
  ELSE (IF Len(lines[1]) > 0 /\ lines[1][1] \in BulletMarks
        THEN <<lines[1]>> ELSE <<>>) \o SelectMarked(Tail(lines))

\* line.replace(/^[-*\u2022]\s*/, "").trim() of a marked line
StripBulletMark(line) == Trim(TrimStart(Tail(line)))
StripAllMarks(marked) ==
  [i \in 1..Len(marked) |-> StripBulletMark(marked[i])] \o <<>>

\* subject || lines[0].slice(0, 72)
ContentSubject(first) ==
  OrElse(Trim(Take(StripSubjectLabel(first), GeneratorSubjectMax)),
         Take(first, GeneratorSubjectMax))

\* parseContent after the split; ok = FALSE stands for null
ParsedLines(lines) ==
  IF Len(lines) = 0
  THEN [ok |-> FALSE, subject |-> <<>>, bullets |-> <<>>]
  ELSE [ok |-> TRUE, subject |-> ContentSubject(lines[1]),
        bullets |-> Take(StripAllMarks(SelectMarked(Tail(lines))), ContentBulletMax)]

\* OpenAiProvider.parseContent
parseContent(content) == ParsedLines(SelectNonEmpty(TrimAll(SplitLines(content))))

\* the parse result taken as it is, without the fallback for null
ParsedOnly(parsed, ins) == [subject |-> parsed.subject, bullets |-> parsed.bullets]

\* parsed ?? this.fallback.generate(request)
ParsedOrLocal(parsed, ins) ==
  IF parsed.ok THEN [subject |-> parsed.subject, bullets |-> parsed.bullets]
  ELSE LocalGenerate(ins)

\* OpenAiProvider.generate for the outcome the remote endpoint produces.
\* calls counts the fetch calls made; the fallback is a LocalAiProvider.
OpenAiGenerate(apiKey, ins, outcome) ==
  IF Len(apiKey) = 0
  THEN [response |-> LocalGenerate(ins), calls |-> 0]
  ELSE IF outcome.kind \in {"throw", "not-ok"}
  THEN [response |-> LocalGenerate(ins), calls |-> 1]
  ELSE IF Len(outcome.content) = 0
  THEN [response |-> LocalGenerate(ins), calls |-> 1]
  ELSE [response |-> ParsedOrLocal(parseContent(outcome.content), ins), calls |-> 1]

\* [first, ...extras].slice(0, count)
FirstAndExtras(first, extras, count) ==
  [responses |-> Take(<<first.response>> \o extras, count),
   first |-> first.response,
   calls |-> first.calls]

\* a generateMany that calls generate, and so the endpoint, per candidate
GenerateEach(apiKey, ins, count, outcome) ==
  [responses |-> [k \in 1..Max(0, count) |->
                    OpenAiGenerate(apiKey, ins, outcome).response] \o <<>>,
   first |-> OpenAiGenerate(apiKey, ins, outcome).response,
   calls |-> Max(0, count) * OpenAiGenerate(apiKey, ins, outcome).calls]

\* OpenAiProvider.generateMany: one generate, the extras from the fallback
OpenAiGenerateMany(apiKey, ins, count, outcome) ==
  FirstAndExtras(OpenAiGenerate(apiKey, ins, outcome),
                 LocalGenerateMany(ins, count - 1), count)

(***************************************************************************)
(* Generator selector: resolveApiKey, resolveGithubEnvToken, getProvider   *)
(* (ai/factory.ts) and the OpenAiProvider constructor                      *)
(***************************************************************************)

\* process.env[name]; <<>> stands for an unset (or empty) variable
EnvGet(environ, name) == IF name \in DOMAIN environ THEN environ[name] ELSE <<>>

resolveApiKey(token, environ) ==
  IF Len(token) = 0 THEN <<>>
  ELSE IF StartsWith(token, S_envPrefix) THEN EnvGet(environ, Drop(token, Len(S_envPrefix)))
  ELSE token

GITHUB_AI_ENV_VARS == <<E_PIQNOTE_GITHUB_TOKEN, E_GITHUB_MODELS_TOKEN,
                        E_GITHUB_MODEL_TOKEN, E_GITHUB_FINE_GRAINED_TOKEN,
                        E_GITHUB_FINEGRAINED_TOKEN, E_GITHUB_PAT, E_GITHUB_TOKEN>>

\* the indices of the variables of the list that are set and not blank
GithubEnvHits(environ) ==
  {i \in 1..Len(GITHUB_AI_ENV_VARS) :
     Len(Trim(EnvGet(environ, GITHUB_AI_ENV_VARS[i]))) > 0}

FirstHit(hits, environ) ==
  IF hits = {} THEN <<>>
  ELSE EnvGet(environ, GITHUB_AI_ENV_VARS[CHOOSE i \in hits : \A j \in hits : i <= j])

\* the value of the first variable of the list that is set and not blank;
\* <<>> stands for undefined
resolveGithubEnvToken(environ) == FirstHit(GithubEnvHits(environ), environ)

\* this.apiKey = config.apiKey || process.env.OPENAI_API_KEY || ""
OpenAiProviderApiKey(apiKey, environ) == OrElse(apiKey, EnvGet(environ, E_OPENAI_API_KEY))

\* a ?? b and the truthiness of the offline flags: "true", "false", "undef"
Nullish(a, b) == IF a = "undef" THEN b ELSE a
JsOr(a, b) == IF a = "true" THEN a ELSE b

\* the switch on ai.provider alone, the offline flags left unread
ProviderByNameOnly(cfg, opts, environ) ==
  IF cfg.provider \in {"github", "openai"}
  THEN [kind |-> "remote", name |-> cfg.provider,
        apiKey |-> OpenAiProviderApiKey(resolveApiKey(cfg.apiKey, environ), environ)]
  ELSE IF cfg.provider = "local"
  THEN [kind |-> "local", name |-> "local", apiKey |-> <<>>]
  ELSE [kind |-> "mock", name |-> "mock", apiKey |-> <<>>]

\* getProvider(config, options): the kind of generator and, for the remote
\* kinds, the credential its constructor ends up with
getProvider(cfg, opts, environ) ==
  LET offline == Nullish(opts.offline, cfg.offline)
      githubToken == resolveGithubEnvToken(environ)
      envFallback == IF cfg.provider = "github" THEN githubToken
                     ELSE EnvGet(environ, E_OPENAI_API_KEY)
      apiKey == OrElse(resolveApiKey(OrElse(opts.apiKey, cfg.apiKey), environ),
                       envFallback)
  IN IF offline = "true" THEN [kind |-> "local", name |-> "local", apiKey |-> <<>>]
     ELSE IF cfg.provider \in {"github", "openai"}
     THEN [kind |-> "remote", name |-> cfg.provider,
           apiKey |-> OpenAiProviderApiKey(apiKey, environ)]
     ELSE IF cfg.provider = "local"
     THEN [kind |-> "local", name |-> "local", apiKey |-> <<>>]
     ELSE [kind |-> "mock", name |-> "mock", apiKey |-> <<>>]

(***************************************************************************)
(* Inputs: configurations, environments, diff insights, operator input     *)
(* and the outcomes of the remote endpoint                                 *)
(***************************************************************************)

\* 'sk-1'
K_literal == <<"s","k","-","1">>
\* 'env:GITHUB_TOKEN'
K_envGithub == <<"e","n","v",":","G","I","T","H","U","B","_","T","O","K","E","N">>
\* 'ghp_1'
K_ghp == <<"g","h","p","_","1">>
\* 'sk-2'
K_sk == <<"s","k","-","2">>
\* 'retry'
W_retry == <<"r","e","t","r","y">>
\* 'handler'
W_handler == <<"h","a","n","d","l","e","r">>
\* 'render'
W_render == <<"r","e","n","d","e","r">>
\* 'button'
W_button == <<"b","u","t","t","o","n">>
\* 'label'
W_label == <<"l","a","b","e","l">>
\* 'ui'
W_ui == <<"u","i">>
\* 'web'
W_web == <<"w","e","b">>
\* '*'
W_star == <<"*">>
\* 'add retry handler'
L_addRetryHandler == <<"a","d","d"," ","r","e","t","r","y"," ","h","a","n","d","l","e","r">>
\* 'render button label'
L_renderButtonLabel == <<"r","e","n","d","e","r"," ","b","u","t","t","o","n"," ","l","a","b","e","l">>
\* 'update stuff now'
L_updateStuffNow == <<"u","p","d","a","t","e"," ","s","t","u","f","f"," ","n","o","w">>
\* 'Updates around retry, handler'
SUM_retry == <<"U","p","d","a","t","e","s"," ","a","r","o","u","n","d"," ","r","e","t","r","y",","," ","h","a","n","d","l","e","r">>
\* 'ui updates: render, button, label'
SUM_ui == <<"u","i"," ","u","p","d","a","t","e","s",":"," ","r","e","n","d","e","r",","," ","b","u","t","t","o","n",","," ","l","a","b","e","l">>
\* 'Updates around update, stuff'
SUM_vague == <<"U","p","d","a","t","e","s"," ","a","r","o","u","n","d"," ","u","p","d","a","t","e",","," ","s","t","u","f","f">>
\* 'feat: add retry support'
IN_featRetry == <<"f","e","a","t",":"," ","a","d","d"," ","r","e","t","r","y"," ","s","u","p","p","o","r","t">>
\* 'update stuff'
IN_updateStuff == <<"u","p","d","a","t","e"," ","s","t","u","f","f">>
\* 'feat!: add retry'
IN_featBang == <<"f","e","a","t","!",":"," ","a","d","d"," ","r","e","t","r","y">>
\* 'docs: fix typo'
IN_docsTypo == <<"d","o","c","s",":"," ","f","i","x"," ","t","y","p","o">>
\* 'feat('
S_featOpen == <<"f","e","a","t","(">>
\* '): describe change'
S_describeChange == <<")",":"," ","d","e","s","c","r","i","b","e"," ","c","h","a","n","g","e">>
\* ''
ED_empty == <<>>
\* 'improve retry logic'
ED_improve == <<"i","m","p","r","o","v","e"," ","r","e","t","r","y"," ","l","o","g","i","c">>
\* 'touch dist/index.js\nupdate the docs\ntidy names'
ED_mixed == <<"t","o","u","c","h"," ","d","i","s","t","/","i","n","d","e","x",".","j","s","\n","u","p","d","a","t","e"," ","t","h","e"," ","d","o","c","s","\n","t","i","d","y"," ","n","a","m","e","s">>
\* ''
C_empty == <<>>
\* ' \n '
C_blank == <<" ","\n"," ">>
\* 'feat(api): add retry support\n- handle timeouts'
C_good == <<"f","e","a","t","(","a","p","i",")",":"," ","a","d","d"," ","r","e","t","r","y"," ","s","u","p","p","o","r","t","\n","-"," ","h","a","n","d","l","e"," ","t","i","m","e","o","u","t","s">>
\* 'Subject: update stuff\n* tweak things'
C_label == <<"S","u","b","j","e","c","t",":"," ","u","p","d","a","t","e"," ","s","t","u","f","f","\n","*"," ","t","w","e","a","k"," ","t","h","i","n","g","s">>

\* bound on the number of invalid manual entries in a row that the model
\* follows (the source has none)
MaxManualRounds == 2

\* DiffInsights of three diffs (scope <<>> stands for undefined):
\* one added line "add retry handler" in a file no scope rule matches
InsRetry == [scope |-> <<>>, topics |-> <<W_retry, W_handler>>,
             bulletPoints |-> <<L_addRetryHandler>>, summary |-> SUM_retry]
\* one added line "render button label" in src/components/Button.tsx
InsUi == [scope |-> W_ui, topics |-> <<W_render, W_button, W_label>>,
          bulletPoints |-> <<L_renderButtonLabel>>, summary |-> SUM_ui]
\* one added line "update stuff now" in a file no scope rule matches
InsVague == [scope |-> <<>>, topics |-> <<V_update, V_stuff>>,
             bulletPoints |-> <<L_updateStuffNow>>, summary |-> SUM_vague]
InsightsSet == {InsRetry, InsUi, InsVague}

\* the commit policy part of PiqnoteConfig; the first is defaultConfig
PolicyDefault == [style |-> "conventional", scope |-> S_core,
                  maxSubjectLength |-> 72, maxBullets |-> 2, bulletPrefix |-> S_dash]
PolicyTight == [style |-> "conventional", scope |-> <<>>,
                maxSubjectLength |-> 24, maxBullets |-> 1, bulletPrefix |-> W_star]
PolicyPlain == [style |-> "plain", scope |-> W_web,
                maxSubjectLength |-> 72, maxBullets |-> 2, bulletPrefix |-> S_dash]
PolicySet == {PolicyDefault, PolicyTight, PolicyPlain}

\* the generator part of PiqnoteConfig together with the --offline option
\* and the process environment
EnvEmpty == [n \in {E_GITHUB_TOKEN} |-> <<>>]
EnvGithub == [n \in {E_GITHUB_TOKEN} |-> K_ghp]
EnvOpenAi == [n \in {E_OPENAI_API_KEY} |-> K_sk]
SelectorSet ==
  { [provider |-> "github", apiKey |-> K_envGithub, offline |-> "false",
     optOffline |-> "false", env |-> EnvGithub],
    [provider |-> "github", apiKey |-> K_envGithub, offline |-> "false",
     optOffline |-> "false", env |-> EnvEmpty],
    [provider |-> "github", apiKey |-> K_envGithub, offline |-> "false",
     optOffline |-> "false", env |-> EnvOpenAi],
    [provider |-> "mock", apiKey |-> <<>>, offline |-> "false",
     optOffline |-> "false", env |-> EnvEmpty],
    [provider |-> "openai", apiKey |-> K_literal, offline |-> "false",
     optOffline |-> "true", env |-> EnvEmpty] }

MakeConfig(policy, sel) ==
  [style |-> policy.style, scope |-> policy.scope,
   maxSubjectLength |-> policy.maxSubjectLength, maxBullets |-> policy.maxBullets,
   bulletPrefix |-> policy.bulletPrefix,
   provider |-> sel.provider, apiKey |-> sel.apiKey, offline |-> sel.offline]

\* the working directory: a repository or not, and what it has to commit
RepoSet == { [isRepo |-> TRUE, changes |-> "staged"],
             [isRepo |-> TRUE, changes |-> "unstaged"],
             [isRepo |-> TRUE, changes |-> "both"],
             [isRepo |-> TRUE, changes |-> "none"],
             [isRepo |-> FALSE, changes |-> "none"] }

\* the changes of the working tree, by kind: "both" stands for staged
\* changes with further unstaged changes beside them
WorkingChanges(r) ==
  IF r.changes = "both" THEN {"staged", "unstaged"}
  ELSE IF r.changes = "none" THEN {}
  ELSE {r.changes}

\* collectDiff: the changes whose diff is returned, the staged ones when
\* there are any, the unstaged ones otherwise
collectDiff(r) ==
  IF "staged" \in WorkingChanges(r) THEN {"staged"} ELSE WorkingChanges(r)

\* the changes in the index when git commit runs: after stageAll
\* (git add -A) all of them, without it the staged ones
CommitContents(r, stagedAll) ==
  IF stagedAll THEN WorkingChanges(r) ELSE WorkingChanges(r) \cap {"staged"}

\* what the operator types at promptSubject
TypedSubjects == {IN_featRetry, IN_updateStuff, IN_docsTypo, IN_featBang}
\* what the operator leaves in the editor of promptBullets
EditorTexts == {ED_empty, ED_mixed}

\* what the remote endpoint does with one request:
\* fetch rejects, a non-2xx status, or a body with this message content
RemoteOutcomes ==
  { [kind |-> "throw", content |-> <<>>],
    [kind |-> "not-ok", content |-> <<>>],
    [kind |-> "body", content |-> C_empty],
    [kind |-> "body", content |-> C_blank],
    [kind |-> "body", content |-> C_good],
    [kind |-> "body", content |-> C_label] }
\* no request was made
NoOutcome == [kind |-> "none", content |-> <<>>]

(***************************************************************************)
(* The commit command: main, collectDiff, buildSuggestions,                *)
(* promptManualMessage and the review loop of commandCommit (cli.ts)       *)
(***************************************************************************)

VARIABLES
  config,        \* the loaded PiqnoteConfig
  options,       \* the command's options
  env,           \* process.env
  repo,          \* the working directory
  insights,      \* analyzeDiff(diff)
  pc,            \* where the command is
  site,          \* the call of buildSuggestions in progress
  attempt,       \* buildSuggestions: attempt
  roundValid,    \* buildSuggestions: valid.length of each round so far
  normalized,    \* buildSuggestions: normalized of the last round
  lastOutcome,   \* what the remote endpoint did in the last round
  firstResponse, \* OpenAiProvider.generateMany: first
  roundCalls,    \* fetch calls made in the last round
  messages, raw, selectedIndex, message, bullets, subject,
  manualRounds,  \* invalid manual entries in a row
  staged,        \* stageAll has run
  committed,     \* the texts handed to commitMessage
  probe          \* the function applied on its own, outside the command

vars == <<config, options, env, repo, insights, pc, site, attempt, roundValid,
          normalized, lastOutcome, firstResponse, roundCalls, messages, raw,
          selectedIndex, message, bullets, subject, manualRounds, staged,
          committed, probe>>

\* what the command reads and never writes; probe stays NoProbe in it
inputVars == <<config, options, env, repo, insights, probe>>

\* no function is applied on its own while the command runs
NoProbe == [op |-> "none", args |-> <<>>, done |-> TRUE, out |-> <<>>]
roundVars == <<attempt, roundValid, normalized, lastOutcome, firstResponse, roundCalls>>
reviewVars == <<messages, raw, selectedIndex, message, bullets, subject>>
effectVars == <<staged, committed>>

NoResponse == [subject |-> <<>>, bullets |-> <<>>]

\* one round more than the source allows
FourAttempts == 3 + 1

\* const maxAttempts = 3
maxAttempts == 3

\* provider.generateMany(request, 3)
candidateCount == 3

\* config.scope || insights.scope || "core"
scopeFallback == DesiredScope(config, insights.scope)
bulletLimit == BulletLimit(config)

\* getProvider(config, { offline: options.offline || config.offline })
commandProvider(cfg, opts, e) ==
  getProvider(cfg, [offline |-> JsOr(opts.offline, cfg.offline),
                    apiKey |-> <<>>], e)

provider == commandProvider(config, options, env)

\* what the endpoint can do in one round: nothing when no request is made
OutcomesOf(p) ==
  IF p.kind = "remote" /\ Len(p.apiKey) > 0 THEN RemoteOutcomes ELSE {NoOutcome}

\* the responses of one round: provider.generateMany(request, 3), each of
\* the three generators having generateMany
GenerateRound(p, ins, outcome) ==
  IF p.kind = "remote"
  THEN OpenAiGenerateMany(p.apiKey, ins, candidateCount, outcome)
  ELSE IF p.kind = "local"
  THEN [responses |-> LocalGenerateMany(ins, candidateCount),
        first |-> NoResponse, calls |-> 0]
  ELSE [responses |-> MockGenerateMany(ins, candidateCount),
        first |-> NoResponse, calls |-> 0]

\* { subject, bullets, formatted, validation } of one response
Normalized(nsubject, nbullets, formatted, cfg) ==
  [subject |-> nsubject, bullets |-> nbullets, formatted |-> formatted,
   valid |-> validateCommitContent(FirstLine(formatted), nbullets, cfg).valid]

FormatNormalized(nsubject, nbullets, cfg, ins) ==
  Normalized(nsubject, nbullets, formatCommit(nsubject, nbullets, ins.scope, cfg), cfg)

\* responses.map((r) => {...}) of buildSuggestions
NormalizeResponse(r, cfg, ins) ==
  FormatNormalized(normalizeSubject(r.subject, DesiredScope(cfg, ins.scope)),
                   ensureBullets(r.bullets, ins.bulletPoints, BulletLimit(cfg)),
                   cfg, ins)

NormalizeAll(responses, cfg, ins) ==
  [i \in 1..Len(responses) |-> NormalizeResponse(responses[i], cfg, ins)] \o <<>>

RECURSIVE SelectValid(_)
SelectValid(ns) ==
  IF Len(ns) = 0 THEN <<>>
  ELSE (IF ns[1].valid THEN <<ns[1]>> ELSE <<>>) \o SelectValid(Tail(ns))

\* a filter that keeps every candidate, valid or not
AllCandidates(ns) == ns

\* a filter that keeps the first valid candidate only
FirstValidOnly(ns) == Take(SelectValid(ns), 1)

\* normalized.filter((n) => n.validation.valid)
validCandidates(ns) == SelectValid(ns)

RoundResult(gen, norm) ==
  [first |-> gen.first, calls |-> gen.calls, normalized |-> norm,
   valid |-> validCandidates(norm)]

RoundOfResponses(gen, cfg, ins) ==
  RoundResult(gen, NormalizeAll(gen.responses, cfg, ins))

\* the body of the while loop of buildSuggestions, up to valid.length
RoundBody(cfg, opts, e, ins, outcome) ==
  RoundOfResponses(GenerateRound(commandProvider(cfg, opts, e), ins, outcome),
                   cfg, ins)

\* promptBullets: the editor's text, split, trimmed and sanitized
promptBullets(value, limit) ==
  sanitizeBullets(SelectNonEmpty(TrimAll(SplitLines(value))), limit)

\* `feat(${insights.scope || scopeFallback}): describe change`
defaultSubjectOf(cfg, ins) ==
  S_featOpen \o OrElse(ins.scope, DesiredScope(cfg, ins.scope)) \o S_describeChange

defaultSubject == defaultSubjectOf(config, insights)

\* a manual entry that is returned without being validated
ManualEntryUnchecked(nsubject, nbullets, cfg, ins) ==
  [subject |-> nsubject, bullets |-> nbullets,
   message |-> formatCommit(nsubject, nbullets, ins.scope, cfg),
   valid |-> TRUE]

ManualEntry(nsubject, nbullets, cfg, ins) ==
  [subject |-> nsubject, bullets |-> nbullets,
   message |-> formatCommit(nsubject, nbullets, ins.scope, cfg),
   valid |-> validateCommitContent(nsubject, nbullets, cfg).valid]

\* the body of the while (true) of promptManualMessage, up to validation
ManualBody(cfg, ins, subjectInput, value) ==
  ManualEntry(normalizeSubject(subjectInput, DesiredScope(cfg, ins.scope)),
              promptBullets(value, BulletLimit(cfg)), cfg, ins)

\* the runs of the command the model follows: a configuration, the
\* command's options, the environment and the insights of the diff
ScenarioSet ==
  { [config |-> MakeConfig(policy, sel), options |-> [offline |-> sel.optOffline],
     env |-> sel.env, insights |-> ins] :
       policy \in PolicySet, sel \in SelectorSet, ins \in InsightsSet }

scenario == [config |-> config, options |-> options, env |-> env,
             insights |-> insights]

\* RoundBody and ManualBody read nothing but the scenario and the input of
\* the pass, so each is evaluated once per scenario and input
RoundOf ==
  [sc \in ScenarioSet |->
     [o \in OutcomesOf(commandProvider(sc.config, sc.options, sc.env)) |->
        RoundBody(sc.config, sc.options, sc.env, sc.insights, o)] @@ <<>>] @@ <<>>

ManualSubjects(cfg, ins) == TypedSubjects \cup {defaultSubjectOf(cfg, ins)}
ManualTexts(ins) == EditorTexts \cup {JoinLines(ins.bulletPoints)}

ManualOf ==
  [sc \in ScenarioSet |->
     [in \in ManualSubjects(sc.config, sc.insights) \X ManualTexts(sc.insights) |->
        ManualBody(sc.config, sc.insights, in[1], in[2])] @@ <<>>] @@ <<>>

ClearRound ==
  /\ attempt' = 0
  /\ roundValid' = <<>>
  /\ normalized' = <<>>
  /\ lastOutcome' = NoOutcome
  /\ firstResponse' = NoResponse
  /\ roundCalls' = 0

Init ==
  /\ repo \in RepoSet
  /\ \E sc \in (IF repo.isRepo /\ repo.changes = "staged"
                THEN ScenarioSet
                ELSE {x \in ScenarioSet : /\ x.config.provider = "mock"
                                          /\ x.insights = InsRetry
                                          /\ (repo.isRepo \/ x.config.scope = S_core)}) :
       /\ config = sc.config
       /\ options = sc.options
       /\ env = sc.env
       /\ insights = sc.insights
  /\ pc = "start"
  /\ site = "none"
  /\ attempt = 0
  /\ roundValid = <<>>
  /\ normalized = <<>>
  /\ lastOutcome = NoOutcome
  /\ firstResponse = NoResponse
  /\ roundCalls = 0
  /\ messages = <<>>
  /\ raw = <<>>
  /\ selectedIndex = 0
  /\ message = <<>>
  /\ bullets = <<>>
  /\ subject = <<>>
  /\ manualRounds = 0
  /\ staged = FALSE
  /\ committed = <<>>
  /\ probe = NoProbe

\* main: isGitRepo fails, or collectDiff throws "No changes to commit":
\* process.exit(1)
StartFails ==
  /\ pc = "start"
  /\ ~repo.isRepo \/ repo.changes = "none"
  /\ pc' = "exit1"
  /\ UNCHANGED <<inputVars, site, roundVars, reviewVars, manualRounds, effectVars>>

\* a start that checks neither the repository nor its changes
StartUnchecked ==
  /\ pc = "start"
  /\ pc' = "build"
  /\ site' = "initial"
  /\ UNCHANGED <<inputVars, roundVars, reviewVars, manualRounds, effectVars>>

\* main, collectDiff and analyzeDiff succeed; buildSuggestions is entered
Start ==
  /\ pc = "start"
  /\ repo.isRepo /\ repo.changes # "none"
  /\ pc' = "build"
  /\ site' = "initial"
  /\ UNCHANGED <<inputVars, roundVars, reviewVars, manualRounds, effectVars>>

\* an end of round whose exhaustion ends the command with an error
EndRoundFatal(outcome, round) ==
  /\ attempt' = attempt + 1
  /\ lastOutcome' = outcome
  /\ firstResponse' = round.first
  /\ roundCalls' = round.calls
  /\ normalized' = round.normalized
  /\ roundValid' = Append(roundValid, Len(round.valid))
  /\ IF Len(round.valid) > 0
     THEN /\ messages' = [i \in 1..Len(round.valid) |-> round.valid[i].formatted]
          /\ raw' = [i \in 1..Len(round.valid) |->
                       [subject |-> round.valid[i].subject,
                        bullets |-> round.valid[i].bullets]]
          /\ pc' = "pick"
     ELSE /\ UNCHANGED <<messages, raw>>
          /\ pc' = IF attempt + 1 < maxAttempts THEN "build" ELSE "exit1"

\* an end of round that returns the subjects and bullets of every
\* candidate, valid or not, beside the messages of the valid ones
EndRoundRawUnfiltered(outcome, round) ==
  /\ attempt' = attempt + 1
  /\ lastOutcome' = outcome
  /\ firstResponse' = round.first
  /\ roundCalls' = round.calls
  /\ normalized' = round.normalized
  /\ roundValid' = Append(roundValid, Len(round.valid))
  /\ IF Len(round.valid) > 0
     THEN /\ messages' = [i \in 1..Len(round.valid) |-> round.valid[i].formatted]
          /\ raw' = [i \in 1..Len(round.normalized) |->
                       [subject |-> round.normalized[i].subject,
                        bullets |-> round.normalized[i].bullets]]
          /\ pc' = "pick"
     ELSE /\ UNCHANGED <<messages, raw>>
          /\ pc' = IF attempt + 1 < maxAttempts THEN "build" ELSE "manual"

\* the end of one pass of the while loop of buildSuggestions: the round is
\* recorded, and a round with a valid candidate returns
EndRound(outcome, round) ==
  /\ attempt' = attempt + 1
  /\ lastOutcome' = outcome
  /\ firstResponse' = round.first
  /\ roundCalls' = round.calls
  /\ normalized' = round.normalized
  /\ roundValid' = Append(roundValid, Len(round.valid))
  /\ IF Len(round.valid) > 0
     THEN /\ messages' = [i \in 1..Len(round.valid) |-> round.valid[i].formatted]
          /\ raw' = [i \in 1..Len(round.valid) |->
                       [subject |-> round.valid[i].subject,
                        bullets |-> round.valid[i].bullets]]
          /\ pc' = "pick"
     ELSE /\ UNCHANGED <<messages, raw>>
          /\ pc' = IF attempt + 1 < maxAttempts THEN "build" ELSE "manual"

\* a pass of the while loop whose request carries the insights of any diff,
\* not those of the diff under review
BuildRoundAnyInsights ==
  /\ pc = "build"
  /\ attempt < maxAttempts
  /\ \E outcome \in OutcomesOf(provider), ins \in InsightsSet :
       EndRound(outcome, RoundOf[[scenario EXCEPT !.insights = ins]][outcome])
  /\ UNCHANGED <<inputVars, site, selectedIndex, message, bullets, subject,
                 manualRounds, effectVars>>

\* one pass of the while loop of buildSuggestions; leaving it with
\* attempt = maxAttempts and nothing valid is the throw, which each caller
\* catches by running promptManualMessage
BuildRound ==
  /\ pc = "build"
  /\ attempt < maxAttempts
  /\ \E outcome \in OutcomesOf(provider) :
       EndRound(outcome, RoundOf[scenario][outcome])
  /\ UNCHANGED <<inputVars, site, selectedIndex, message, bullets, subject,
                 manualRounds, effectVars>>

\* pickSuggestion and the three assignments that follow it, at the call of
\* buildSuggestions named s
PickAt(s) ==
  /\ pc = "pick"
  /\ site = s
  /\ \E idx \in 1..Len(messages) :
       /\ selectedIndex' = idx
       /\ message' = messages[idx]
       /\ bullets' = raw[idx].bullets
       /\ subject' = FirstLine(messages[idx])
  /\ pc' = "review"
  /\ site' = "none"
  /\ ClearRound
  /\ UNCHANGED <<inputVars, messages, raw, manualRounds, effectVars>>

PickInitial == PickAt("initial")
PickRegenerate == PickAt("regenerate")

\* a pick after a rejected accept that keeps the operator's subject
PickAcceptKeepsSubject ==
  /\ pc = "pick"
  /\ site = "accept"
  /\ \E idx \in 1..Len(messages) :
       /\ selectedIndex' = idx
       /\ message' = messages[idx]
       /\ bullets' = raw[idx].bullets
  /\ pc' = "review"
  /\ site' = "none"
  /\ ClearRound
  /\ UNCHANGED <<inputVars, messages, raw, subject, manualRounds, effectVars>>

PickAccept == PickAt("accept")

\* the end of one pass of the while (true) of promptManualMessage at the
\* call of buildSuggestions named s: a valid entry is returned and becomes
\* the suggestion, an invalid one is asked for again
EndManual(s, manual) ==
  IF manual.valid
  THEN /\ messages' = <<manual.message>>
       /\ raw' = <<[subject |-> manual.subject, bullets |-> manual.bullets]>>
       /\ manualRounds' = 0
       /\ ClearRound
       /\ IF s = "initial"
          THEN /\ pc' = "pick"
               /\ UNCHANGED <<site, selectedIndex, message, bullets, subject>>
          ELSE /\ pc' = "review"
               /\ site' = "none"
               /\ selectedIndex' = 1
               /\ message' = manual.message
               /\ bullets' = manual.bullets
               /\ subject' = manual.subject
  ELSE /\ manualRounds < MaxManualRounds
       /\ manualRounds' = manualRounds + 1
       /\ UNCHANGED <<pc, site, roundVars, reviewVars>>

\* one pass of the while (true) of promptManualMessage, at the call of
\* buildSuggestions named s that threw
ManualAt(s) ==
  /\ pc = "manual"
  /\ site = s
  /\ \E subjectInput \in ManualSubjects(config, insights),
        value \in ManualTexts(insights) :
       EndManual(s, ManualOf[scenario][<<subjectInput, value>>])
  /\ UNCHANGED <<inputVars, effectVars>>

ManualInitial == ManualAt("initial")
ManualRegenerate == ManualAt("regenerate")
ManualAccept == ManualAt("accept")

\* subject = ...; message = formatCommit({ subject, bullets, ... })
SetSubject(nsubject) ==
  /\ subject' = nsubject
  /\ message' = formatCommit(nsubject, bullets, insights.scope, config)

\* action === "edit-subject"
EditSubject ==
  /\ pc = "review"
  /\ \E input \in TypedSubjects \cup {subject} :
       SetSubject(normalizeSubject(input, scopeFallback))
  /\ UNCHANGED <<inputVars, pc, site, roundVars, messages, raw, selectedIndex,
                 bullets, manualRounds, effectVars>>

\* bullets = ...; message = formatCommit({ subject, bullets, ... })
SetBullets(nbullets) ==
  /\ bullets' = nbullets
  /\ message' = formatCommit(subject, nbullets, insights.scope, config)

\* action === "edit-bullets"
EditBullets ==
  /\ pc = "review"
  /\ \E value \in EditorTexts \cup {JoinLines(bullets)} :
       SetBullets(promptBullets(value, bulletLimit))
  /\ UNCHANGED <<inputVars, pc, site, roundVars, messages, raw, selectedIndex,
                 subject, manualRounds, effectVars>>

\* action === "regenerate": buildSuggestions is entered
Regenerate ==
  /\ pc = "review"
  /\ pc' = "build"
  /\ site' = "regenerate"
  /\ UNCHANGED <<inputVars, roundVars, reviewVars, manualRounds, effectVars>>

\* action === "abort" and confirmAbort answers yes
AbortConfirmed ==
  /\ pc = "review"
  /\ pc' = "aborted"
  /\ UNCHANGED <<inputVars, site, roundVars, reviewVars, manualRounds, effectVars>>

\* a declined abort that puts the picked suggestion back under review
AbortDeclinedDropsEdits ==
  /\ pc = "review"
  /\ message' = messages[selectedIndex]
  /\ bullets' = raw[selectedIndex].bullets
  /\ subject' = FirstLine(messages[selectedIndex])
  /\ UNCHANGED <<inputVars, pc, site, roundVars, messages, raw, selectedIndex,
                 manualRounds, effectVars>>

\* action === "abort" and confirmAbort answers no
AbortDeclined ==
  /\ pc = "review"
  /\ UNCHANGED <<inputVars, pc, site, roundVars, reviewVars, manualRounds, effectVars>>

\* action === "accept" and the validation fails: buildSuggestions is entered
AcceptRejected ==
  /\ pc = "review"
  /\ ~validateCommitContent(subject, bullets, config).valid
  /\ pc' = "build"
  /\ site' = "accept"
  /\ UNCHANGED <<inputVars, roundVars, reviewVars, manualRounds, effectVars>>

\* an accept that stages and commits without validating
AcceptWithoutValidation ==
  /\ pc = "review"
  /\ \E git \in {"ok", "add-fails", "commit-fails"} :
       /\ staged' = (git # "add-fails")
       /\ committed' = IF git = "ok" THEN Append(committed, message) ELSE committed
       /\ pc' = IF git = "ok" THEN "committed" ELSE "exit1"
  /\ UNCHANGED <<inputVars, site, roundVars, reviewVars, manualRounds>>

\* action === "accept" and the validation passes: stageAll, commitMessage;
\* either git command may fail, which ends the command in main's catch
AcceptValid ==
  /\ pc = "review"
  /\ validateCommitContent(subject, bullets, config).valid
  /\ \E git \in {"ok", "add-fails", "commit-fails"} :
       /\ staged' = (git # "add-fails")
       /\ committed' = IF git = "ok" THEN Append(committed, message) ELSE committed
       /\ pc' = IF git = "ok" THEN "committed" ELSE "exit1"
  /\ UNCHANGED <<inputVars, site, roundVars, reviewVars, manualRounds>>

Next ==
  \/ StartFails
  \/ Start
  \/ BuildRound
  \/ PickInitial
  \/ PickRegenerate
  \/ PickAccept
  \/ ManualInitial
  \/ ManualRegenerate
  \/ ManualAccept
  \/ EditSubject
  \/ EditBullets
  \/ Regenerate
  \/ AbortConfirmed
  \/ AbortDeclined
  \/ AcceptRejected
  \/ AcceptValid

Spec == Init /\ [][Next]_vars

(***************************************************************************)
(* Diff analyzer: extractFilePaths, detectScopeFromPaths and the path      *)
(* fields of analyzeDiff (analyzer/diffAnalyzer.ts)                        *)
(***************************************************************************)

\* 'sass'
X_sass == <<"s","a","s","s">>
\* 'vue'
X_vue == <<"v","u","e">>
\* 'api'
Q_api == <<"a","p","i">>
\* 'server'
Q_server == <<"s","e","r","v","e","r">>
\* 'backend'
Q_backend == <<"b","a","c","k","e","n","d">>
\* 'routes'
Q_routes == <<"r","o","u","t","e","s">>
\* 'controllers'
Q_controllers == <<"c","o","n","t","r","o","l","l","e","r","s">>
\* 'config'
Q_config == <<"c","o","n","f","i","g">>
\* 'settings'
Q_settings == <<"s","e","t","t","i","n","g","s">>
\* 'webpack'
Q_webpack == <<"w","e","b","p","a","c","k">>
\* 'vite'
Q_vite == <<"v","i","t","e">>
\* 'component'
Q_component == <<"c","o","m","p","o","n","e","n","t">>
\* 'front'
Q_front == <<"f","r","o","n","t">>
\* '+++ b/'
D_plusB == <<"+","+","+"," ","b","/">>
\* '--- a/'
D_minusA == <<"-","-","-"," ","a","/">>
\* '/dev/null'
D_devNull == <<"/","d","e","v","/","n","u","l","l">>
\* 'diff --git a/'
D_diffGit == <<"d","i","f","f"," ","-","-","g","i","t"," ","a","/">>
\* ' b/'
D_spaceB == <<" ","b","/">>
\* '@@ -1 +1 @@'
D_hunk == <<"@","@"," ","-","1"," ","+","1"," ","@","@">>
\* '+added line'
D_added == <<"+","a","d","d","e","d"," ","l","i","n","e">>
\* 'server/api/routes/users.ts'
D_usersTs == <<"s","e","r","v","e","r","/","a","p","i","/","r","o","u","t","e","s","/","u","s","e","r","s",".","t","s">>
\* 'src/components/Button.tsx'
D_buttonTsx == <<"s","r","c","/","c","o","m","p","o","n","e","n","t","s","/","B","u","t","t","o","n",".","t","s","x">>
\* 'src/app.js'
D_appJs == <<"s","r","c","/","a","p","p",".","j","s">>
\* 'docs/guide.md'
D_guideMd == <<"d","o","c","s","/","g","u","i","d","e",".","m","d">>
\* 'server/api/handler.py'
D_handlerPy == <<"s","e","r","v","e","r","/","a","p","i","/","h","a","n","d","l","e","r",".","p","y">>
\* 'vite.config.json'
D_viteJson == <<"v","i","t","e",".","c","o","n","f","i","g",".","j","s","o","n">>

\* String.prototype.endsWith
EndsWith(s, p) == OccursAt(s, p, Len(s) - Len(p) + 1)

\* the index of the first occurrence of p in s; 0 stands for none
FirstOccurrence(s, p) ==
  IF Includes(s, p)
  THEN CHOOSE i \in 1..(Len(s) + 1) :
         OccursAt(s, p, i) /\ \A j \in 1..(i - 1) : ~OccursAt(s, p, j)
  ELSE 0

\* s without the len characters at index i; s itself when i = 0
CutAt(s, i, len) == IF i = 0 THEN s ELSE Take(s, i - 1) \o Drop(s, i - 1 + len)

\* s.replace(p, "") for a string p: the first occurrence only
RemoveFirst(s, p) == CutAt(s, FirstOccurrence(s, p), Len(p))

RECURSIVE SplitNewlines(_)
\* the split at index i, the first "\n" of the text; 0 stands for none
SplitNewlineAt(text, i) ==
  IF i = 0 THEN <<text>>
  ELSE <<Take(text, i - 1)>> \o SplitNewlines(Drop(text, i))

\* diff.split("\n")
SplitNewlines(text) == SplitNewlineAt(text, IndexOf(text, "\n"))

\* line.startsWith("+++ b/") || line.startsWith("--- a/")
IsPathHeader(line) == StartsWith(line, D_plusB) \/ StartsWith(line, D_minusA)

RECURSIVE SelectPathHeaders(_)
SelectPathHeaders(lines) ==
  IF Len(lines) = 0 THEN <<>>
  ELSE (IF IsPathHeader(lines[1]) THEN <<lines[1]>> ELSE <<>>)
       \o SelectPathHeaders(Tail(lines))

\* line.replace("+++ b/", "").replace("--- a/", "")
StripPathHeader(line) == RemoveFirst(RemoveFirst(line, D_plusB), D_minusA)

StripPathHeaders(lines) == [i \in 1..Len(lines) |-> StripPathHeader(lines[i])] \o <<>>

extractFilePaths(diff) ==
  SelectNonEmpty(StripPathHeaders(SelectPathHeaders(SplitNewlines(diff))))

frontendExtensions ==
  {<<".">> \o x : x \in {X_ts, X_tsx, X_js, X_jsx, X_css, X_scss, X_sass, X_vue}}
apiIndicators == {Q_api, Q_server, Q_backend, Q_routes, Q_controllers}
configIndicators == {Q_config, Q_settings, X_env, T_build, Q_webpack, Q_vite}

\* the body of the for loop of detectScopeFromPaths for the lowercase path;
\* <<>> stands for no return
ScopeOfPath(lower) ==
  IF \E ext \in frontendExtensions : EndsWith(lower, ext)
  THEN (IF Includes(lower, Q_component) \/ Includes(lower, W_ui)
        THEN W_ui ELSE Q_front)
  ELSE IF \E keyword \in apiIndicators : Includes(lower, keyword) THEN Q_api
  ELSE IF \E keyword \in configIndicators : Includes(lower, keyword) THEN T_build
  ELSE <<>>

RECURSIVE LastScope(_)
\* a scan in which a later matching path overrides an earlier one
LastScope(scopes) ==
  IF Len(scopes) = 0 THEN <<>>
  ELSE IF Len(LastScope(Tail(scopes))) > 0 THEN LastScope(Tail(scopes))
  ELSE scopes[1]

RECURSIVE FirstScope(_)
\* the first return of the loop over the scopes of the paths
FirstScope(scopes) ==
  IF Len(scopes) = 0 THEN <<>>
  ELSE IF Len(scopes[1]) > 0 THEN scopes[1]
  ELSE FirstScope(Tail(scopes))

\* <<>> stands for undefined
detectScopeFromPaths(paths) ==
  FirstScope([i \in 1..Len(paths) |-> ScopeOfPath(ToLower(paths[i]))] \o <<>>)

\* the frontendExtensions of analyzeDiff, without .ts and .js
analyzeFrontendExtensions ==
  {<<".">> \o x : x \in {X_tsx, X_jsx, X_css, X_scss, X_sass, X_vue}}

IsFrontend(files) ==
  \E i \in 1..Len(files) :
    \E ext \in analyzeFrontendExtensions : EndsWith(ToLower(files[i]), ext)

\* the index of the last "." of f; 0 stands for none
LastDot(f) ==
  IF \E i \in 1..Len(f) : f[i] = "."
  THEN CHOOSE i \in 1..Len(f) : f[i] = "." /\ \A j \in (i + 1)..Len(f) : f[j] # "."
  ELSE 0

\* parts.length > 1 ? parts.pop() || "" : ""
KindOf(f) == IF LastDot(f) = 0 THEN <<>> ELSE Drop(f, LastDot(f))

RECURSIVE Distinct(_, _)
\* Array.from(new Set(rest)) continued after the elements of seen
Distinct(seen, rest) ==
  IF Len(rest) = 0 THEN seen
  ELSE IF rest[1] \in Range(seen) THEN Distinct(seen, Tail(rest))
  ELSE Distinct(Append(seen, rest[1]), Tail(rest))

FileKinds(files) ==
  Distinct(<<>>, SelectNonEmpty([i \in 1..Len(files) |-> KindOf(files[i])] \o <<>>))

\* the fields of analyzeDiff's result that come from the touched paths
InsightsOfFiles(files) ==
  [scope |-> detectScopeFromPaths(files),
   isFrontend |-> IsFrontend(files),
   filesTouched |-> Len(files),
   fileKinds |-> FileKinds(files)]

analyzeDiff(diff) == InsightsOfFiles(extractFilePaths(diff))

(***************************************************************************)
(* The exported and internal functions applied on their own: the inputs    *)
(* are drawn in UnitInit, one action per function applies it               *)
(***************************************************************************)

\* 'feat!: drop legacy api'
U_featBang == <<"f","e","a","t","!",":"," ","d","r","o","p"," ","l","e","g","a","c","y"," ","a","p","i">>
\* 'feat(api)!: drop legacy flags'
U_featScopedBang == <<"f","e","a","t","(","a","p","i",")","!",":"," ","d","r","o","p"," ","l","e","g","a","c","y"," ","f","l","a","g","s">>
\* 'fix(core): handle timeouts'
U_fixScoped == <<"f","i","x","(","c","o","r","e",")",":"," ","h","a","n","d","l","e"," ","t","i","m","e","o","u","t","s">>
\* 'rework the retry handler'
U_plainLong == <<"r","e","w","o","r","k"," ","t","h","e"," ","r","e","t","r","y"," ","h","a","n","d","l","e","r">>
\* 'ui: render button label'
U_unknownType == <<"u","i",":"," ","r","e","n","d","e","r"," ","b","u","t","t","o","n"," ","l","a","b","e","l">>
\* 'feat(core): add x. ;'
U_punct == <<"f","e","a","t","(","c","o","r","e",")",":"," ","a","d","d"," ","x","."," ",";">>
\* 'Feat(api): Add retry'
U_upper == <<"F","e","a","t","(","a","p","i",")",":"," ","A","d","d"," ","r","e","t","r","y">>
\* '  docs: fix typo.  '
U_padded == <<" "," ","d","o","c","s",":"," ","f","i","x"," ","t","y","p","o","."," "," ">>
\* 'fix!: handle timeouts'
U_fixBang == <<"f","i","x","!",":"," ","h","a","n","d","l","e"," ","t","i","m","e","o","u","t","s">>

\* 'feat: add retry.'
U_featDot == <<"f","e","a","t",":"," ","a","d","d"," ","r","e","t","r","y",".">>

\* subjects handed to the functions
UnitSubjects ==
  {IN_featRetry, IN_updateStuff, IN_docsTypo, U_featBang, U_featScopedBang,
   U_fixScoped, U_plainLong, U_unknownType, U_punct, U_upper, U_padded,
   U_fixBang, U_featDot}

\* bullet lists handed to the functions
UnitBullets == {<<>>, <<L_addRetryHandler>>, <<L_addRetryHandler, L_renderButtonLabel>>}

\* insights.scope handed to formatCommit: undefined or a detected scope
UnitScopes == {<<>>, W_ui}

\* the configurations of the functions that read the commit policy
UnitConfigs ==
  {MakeConfig(policy, [provider |-> "mock", apiKey |-> <<>>, offline |-> "false"]) :
     policy \in PolicySet}

\* a function named op about to be applied to args
Unapplied(op, args) == [op |-> op, args |-> args, done |-> FALSE, out |-> <<>>]

FormatInputs ==
  {Unapplied("formatCommit",
             [subject |-> s, bullets |-> b, insightsScope |-> sc, config |-> c]) :
     s \in UnitSubjects, b \in UnitBullets, sc \in UnitScopes, c \in UnitConfigs}

\* the scope fallbacks handed to normalizeSubject: config.scope ||
\* insights.scope || "core" is never empty
UnitFallbacks == {S_core, W_ui}

NormalizeInputs ==
  {Unapplied("normalizeSubject", [subject |-> s, fallback |-> f]) :
     s \in UnitSubjects, f \in UnitFallbacks}

\* '(api): add retry'
U_apiAddRetry == <<"(","a","p","i",")",":"," ","a","d","d"," ","r","e","t","r","y">>

\* one subject type(api): add retry per allowed type
AllowedTypeSubjects == {ty \o U_apiAddRetry : ty \in ALLOWED_TYPES}

\* the subjects handed to the validator: the above and normalized ones
ValidateSubjects ==
  AllowedTypeSubjects
    \cup {normalizeSubject(s, f) : s \in UnitSubjects, f \in UnitFallbacks}

ValidateInputs ==
  {Unapplied("validateCommitContent", [subject |-> s, bullets |-> b, config |-> c]) :
     s \in ValidateSubjects, b \in UnitBullets, c \in UnitConfigs}

\* the most files one diff of the inputs touches
MaxTouched == 2

\* the paths the diffs of the inputs touch
UnitPaths == {D_usersTs, D_buttonTsx, D_appJs, D_guideMd, D_handlerPy, D_viteJson}

\* the lines git prints for one file: modified, or added (old side /dev/null)
FileDiffLines(path, kind) ==
  << D_diffGit \o path \o D_spaceB \o path,
     IF kind = "added" THEN <<"-", "-", "-", " ">> \o D_devNull ELSE D_minusA \o path,
     D_plusB \o path,
     D_hunk,
     D_added >>

RECURSIVE DiffLinesOf(_)
DiffLinesOf(touched) ==
  IF Len(touched) = 0 THEN <<>>
  ELSE FileDiffLines(touched[1].path, touched[1].kind) \o DiffLinesOf(Tail(touched))

\* the text of the diff that touches the files of touched, in that order
DiffOf(touched) == JoinLines(DiffLinesOf(touched))

\* one to MaxTouched distinct files, each modified or added
TouchedSet ==
  UNION {{t \in [1..n -> [path : UnitPaths, kind : {"modified", "added"}]] :
            \A i, j \in 1..n : (i # j) => (t[i].path # t[j].path)} :
         n \in 1..MaxTouched}

AnalyzeInputs ==
  {Unapplied("analyzeDiff", [touched |-> t, diff |-> DiffOf(t)]) : t \in TouchedSet}

\* the generator part of the configurations handed to getProvider:
\* loadConfig leaves offline a boolean; "azure" is a provider name the
\* switch of getProvider has no case for
UnitSelectors ==
  [provider : {"github", "openai", "local", "mock", "azure"},
   apiKey : {<<>>, K_literal}, offline : {"true", "false"}]

UnitEnvs == {EnvEmpty, EnvGithub, EnvOpenAi}

\* the options getProvider is called with: those buildSuggestions builds
\* from the --offline flag (a boolean) and the configuration, and the
\* default {} of the parameter
ProviderOptionsOf(cfg, flag) ==
  IF flag = "undef" THEN [offline |-> "undef", apiKey |-> <<>>]
  ELSE [offline |-> JsOr(flag, cfg.offline), apiKey |-> <<>>]

ProviderInputs ==
  {Unapplied("getProvider",
             [config |-> MakeConfig(PolicyDefault, sel), flag |-> f,
              options |-> ProviderOptionsOf(sel, f), env |-> e]) :
     sel \in UnitSelectors, f \in {"true", "false", "undef"}, e \in UnitEnvs}

\* MockAiProvider.generateMany of the index-seeded mock, called twice with
\* the same request and count
SeededMockInputs ==
  {Unapplied("MockAiProvider.generateMany", [insights |-> ins, count |-> n]) :
     ins \in InsightsSet, n \in {1, candidateCount}}

\* MockAiProvider.generate of mockProvider.ts, called twice with the same
\* request
RandomMockInputs ==
  {Unapplied("MockAiProvider.generate", [insights |-> ins, count |-> 1]) :
     ins \in InsightsSet}

MockInputs == SeededMockInputs \cup RandomMockInputs

\* isImperative of the scorer
scorerBlacklist == {B_fixes, B_fixed, B_fixing, B_adds, B_added, B_adding,
                    B_updates, B_updated}

isImperative(subj) ==
  /\ Len(FirstWord(Trim(subj))) > 0
  /\ FirstWord(Trim(subj)) \notin scorerBlacklist
  /\ ~Includes(ToLower(subj), B_please)

\* message.includes("feat:") || message.includes("fix:") ||
\* message.includes("chore:") || message.includes("refactor:")
scorerTypeTokens == {T_feat \o <<":">>, T_fix \o <<":">>, T_chore \o <<":">>,
                     T_refactor \o <<":">>}

UsesConventional(msg) == \E token \in scorerTypeTokens : Includes(msg, token)

\* the lines of the message that start with "-" once trimmed
bulletLines(msg) ==
  {i \in 1..Len(SplitLines(msg)) : StartsWith(Trim(SplitLines(msg)[i]), S_dash)}

\* the points of each detail of scoreCommit, in the order they are pushed
scoreDetails(msg, ins) ==
  [subjectLength |-> IF Len(FirstLine(msg)) <= 72 THEN 20 ELSE 5,
   imperativeMood |-> IF isImperative(FirstLine(msg)) THEN 15 ELSE 5,
   conventionalStyle |-> IF UsesConventional(msg) THEN 15 ELSE 5,
   bullets |-> IF bulletLines(msg) # {} THEN 15 ELSE 5,
   frontendAwareness |-> IF ins.isFrontend THEN 10 ELSE 8,
   scopeBreadth |-> IF ins.filesTouched > 3 THEN 8 ELSE 6]

SumOfDetails(d) ==
  d.subjectLength + d.imperativeMood + d.conventionalStyle + d.bullets
    + d.frontendAwareness + d.scopeBreadth

\* scoreCommit(message, insights)
scoreCommit(msg, ins) ==
  [total |-> Min(100, SumOfDetails(scoreDetails(msg, ins))),
   details |-> scoreDetails(msg, ins)]

\* 'feat(core): add x'
U_featCoreAddX == <<"f","e","a","t","(","c","o","r","e",")",":"," ","a","d","d"," ","x">>
\* 'chore(core): add x'
U_choreCoreAddX == <<"c","h","o","r","e","(","c","o","r","e",")",":"," ","a","d","d"," ","x">>
\* 'feat: add x\n- handle timeouts'
U_featAddX == <<"f","e","a","t",":"," ","a","d","d"," ","x","\n","-"," ","h","a","n","d","l","e"," ","t","i","m","e","o","u","t","s">>
\* 'docs(api): describe the retry flags'
U_docsScoped == <<"d","o","c","s","(","a","p","i",")",":"," ","d","e","s","c","r","i","b","e"," ","t","h","e"," ","r","e","t","r","y"," ","f","l","a","g","s">>

\* finished messages handed to the scorer
ScoredMessages ==
  {U_featCoreAddX, U_choreCoreAddX, U_featAddX, U_docsScoped, U_fixScoped,
   U_plainLong, U_featDot, IN_docsTypo, IN_updateStuff, C_good}

ScoreInputs ==
  {Unapplied("scoreCommit",
             [message |-> m, insights |-> [isFrontend |-> f, filesTouched |-> n]]) :
     m \in ScoredMessages, f \in BOOLEAN, n \in {1, 4}}

\* 'bump node_modules cache'
Z_nodeModules == <<"b","u","m","p"," ","n","o","d","e","_","m","o","d","u","l","e","s"," ","c","a","c","h","e">>
\* 'edit config.json now'
Z_fileMention == <<"e","d","i","t"," ","c","o","n","f","i","g",".","j","s","o","n"," ","n","o","w">>
\* 'move src/app entry'
Z_pathMention == <<"m","o","v","e"," ","s","r","c","/","a","p","p"," ","e","n","t","r","y">>
\* '  handle timeouts  '
Z_padded == <<" "," ","h","a","n","d","l","e"," ","t","i","m","e","o","u","t","s"," "," ">>
\* '  '
Z_blank == <<" "," ">>
\* 'tidy names'
Z_tidy == <<"t","i","d","y"," ","n","a","m","e","s">>

\* bullet lists of a generator's response and of insights.bulletPoints
BulletLists ==
  {<<>>, <<Z_blank, V_stuff>>, <<Z_nodeModules, Z_fileMention, Z_pathMention>>,
   <<Z_padded>>, <<Z_nodeModules, L_addRetryHandler, Z_tidy, L_renderButtonLabel>>,
   <<L_addRetryHandler, Z_fileMention, Z_tidy>>}

\* one response of a generator and the insights and configuration
\* buildSuggestions normalizes it under
CandidateInputs ==
  {Unapplied("buildSuggestions.normalized",
             [response |-> [subject |-> s, bullets |-> b],
              insights |-> [InsRetry EXCEPT !.bulletPoints = f],
              config |-> c]) :
     s \in {IN_featRetry, IN_updateStuff}, b \in BulletLists, f \in BulletLists,
     c \in UnitConfigs}

UnitInputs == FormatInputs \cup NormalizeInputs \cup ValidateInputs \cup AnalyzeInputs \cup ProviderInputs \cup MockInputs \cup ScoreInputs \cup CandidateInputs

\* the command is not running: its variables stay as they are here
UnitInit ==
  /\ probe \in UnitInputs
  /\ repo = [isRepo |-> FALSE, changes |-> "none"]
  /\ config = MakeConfig(PolicyDefault,
                         [provider |-> "mock", apiKey |-> <<>>, offline |-> "false"])
  /\ options = [offline |-> "false"]
  /\ env = EnvEmpty
  /\ insights = InsRetry
  /\ pc = "unit"
  /\ site = "none"
  /\ attempt = 0
  /\ roundValid = <<>>
  /\ normalized = <<>>
  /\ lastOutcome = NoOutcome
  /\ firstResponse = NoResponse
  /\ roundCalls = 0
  /\ messages = <<>>
  /\ raw = <<>>
  /\ selectedIndex = 0
  /\ message = <<>>
  /\ bullets = <<>>
  /\ subject = <<>>
  /\ manualRounds = 0
  /\ staged = FALSE
  /\ committed = <<>>

commandVars ==
  <<config, options, env, repo, insights, pc, site, roundVars, reviewVars,
    manualRounds, effectVars>>

\* the function op has been applied and returned result
Applied(op, result) ==
  /\ probe.op = op
  /\ ~probe.done
  /\ probe' = [probe EXCEPT !.done = TRUE, !.out = result]
  /\ UNCHANGED commandVars

ApplyFormatCommit ==
  /\ probe.op = "formatCommit"
  /\ Applied("formatCommit",
             formatCommit(probe.args.subject, probe.args.bullets,
                          probe.args.insightsScope, probe.args.config))

ApplyNormalizeSubject ==
  /\ probe.op = "normalizeSubject"
  /\ Applied("normalizeSubject",
             normalizeSubject(probe.args.subject, probe.args.fallback))

ApplyValidateCommitContent ==
  /\ probe.op = "validateCommitContent"
  /\ Applied("validateCommitContent",
             validateCommitContent(probe.args.subject, probe.args.bullets,
                                   probe.args.config))

ApplyAnalyzeDiff ==
  /\ probe.op = "analyzeDiff"
  /\ Applied("analyzeDiff", analyzeDiff(probe.args.diff))

ApplyGetProvider ==
  /\ probe.op = "getProvider"
  /\ Applied("getProvider",
             getProvider(probe.args.config, probe.args.options, probe.args.env))

\* two calls of generateMany of the index-seeded mock
ApplyMockGenerateMany ==
  /\ probe.op = "MockAiProvider.generateMany"
  /\ Applied("MockAiProvider.generateMany",
             [vocabulary |-> verbs,
              first |-> MockGenerateMany(probe.args.insights, probe.args.count),
              second |-> MockGenerateMany(probe.args.insights, probe.args.count)])

\* two calls of generate of mockProvider.ts, each with its own random index
ApplyRandomMockGenerate ==
  /\ probe.op = "MockAiProvider.generate"
  /\ \E r1, r2 \in 0..(Len(mockVerbs) - 1) :
       Applied("MockAiProvider.generate",
               [vocabulary |-> mockVerbs,
                first |-> <<RandomMockGenerate(probe.args.insights, r1)>>,
                second |-> <<RandomMockGenerate(probe.args.insights, r2)>>])

ApplyScoreCommit ==
  /\ probe.op = "scoreCommit"
  /\ Applied("scoreCommit", scoreCommit(probe.args.message, probe.args.insights))

\* the callback of responses.map in buildSuggestions, for one response
ApplyNormalizeResponse ==
  /\ probe.op = "buildSuggestions.normalized"
  /\ Applied("buildSuggestions.normalized",
             NormalizeResponse(probe.args.response, probe.args.config,
                               probe.args.insights))

UnitNext ==
  \/ ApplyFormatCommit
  \/ ApplyNormalizeSubject
  \/ ApplyValidateCommitContent
  \/ ApplyAnalyzeDiff
  \/ ApplyGetProvider
  \/ ApplyMockGenerateMany
  \/ ApplyRandomMockGenerate
  \/ ApplyScoreCommit
  \/ ApplyNormalizeResponse

UnitSpec == UnitInit /\ [][UnitNext]_vars

\* ---------------------------------------------------------------------
\* Properties of the suggestion rounds, the review loop and the providers
\* ---------------------------------------------------------------------

\* the generator calls return: a round that has started ends
FairSpec == Spec /\ WF_vars(BuildRound)

\* buildSuggestions has returned its result and pickSuggestion is asking
Returned == pc = "pick" /\ attempt > 0

\* the positions of the round's normalized candidates that pass validation
ValidIndices == {i \in 1..Len(normalized) : normalized[i].valid}

\* the k-th smallest position of ValidIndices
NthValid(k) ==
  CHOOSE i \in ValidIndices : Cardinality({j \in ValidIndices : j <= i}) = k

\* C1: every candidate buildSuggestions returns passes validateCommitContent
\* under the commit policy of the invocation: the first line of each
\* returned message with the bullets paired to it is valid.
C1_ReturnsOnlyValid ==
  Returned =>
    /\ Len(messages) = Len(raw)
    /\ Len(messages) > 0
    /\ \A i \in 1..Len(messages) :
         validateCommitContent(FirstLine(messages[i]), raw[i].bullets,
                               config).valid

\* C1 witness: a round returned after dropping a candidate that failed
C1_Witness == Returned /\ Len(messages) < Len(normalized)

\* C2: stageAll and commitMessage run only in the step of the review loop
\* that accepts, only when the subject and bullets under review pass
\* validateCommitContent, and the one message committed is the message
\* under review; no other step stages, commits or ends the command as a
\* commit does.
C2_CommitOnlyOnValidAccept ==
  [][(\/ staged' # staged
      \/ committed' # committed
      \/ pc' = "committed")
     => /\ pc = "review"
        /\ validateCommitContent(subject, bullets, config).valid
        /\ pc' \in {"committed", "exit1"}
        /\ committed' \in {committed, Append(committed, message)}
        /\ (pc' = "committed") = (committed' # committed)
        /\ (pc' = "committed") => staged']_vars

\* C2 witness: an edited message, none of the offered ones, was committed
C2_Witness ==
  /\ pc = "committed"
  /\ staged
  /\ committed = <<message>>
  /\ \A i \in 1..Len(messages) : messages[i] # message

\* the counters of the rounds of one call of buildSuggestions
C3_Rounds ==
  /\ attempt \in 0..3
  /\ Len(roundValid) = attempt
  /\ \A i \in 1..(attempt - 1) : roundValid[i] = 0
  /\ (pc = "build") => (attempt < 3)
  /\ Returned => (roundValid[attempt] > 0)
  /\ (pc = "manual") => (attempt = 3 /\ roundValid[3] = 0)
  /\ (pc \notin {"build", "pick", "manual"}) => (attempt = 0)

\* the steps of the rounds of one call of buildSuggestions
C3_RoundStep ==
  /\ (attempt' # attempt) =>
       \/ pc = "build" /\ attempt' = attempt + 1
       \/ pc \in {"pick", "manual"} /\ attempt' = 0
  /\ (pc = "build" /\ attempt' = attempt + 1) =>
       /\ (roundValid'[attempt'] > 0) => (pc' = "pick")
       /\ (roundValid'[attempt'] = 0 /\ attempt' < 3) => (pc' = "build")
       /\ (roundValid'[attempt'] = 0 /\ attempt' = 3) => (pc' = "manual")

\* C3: one call of buildSuggestions runs at most 3 rounds, returns at the
\* first round with a valid candidate, throws only after exactly 3 rounds
\* without one, and, the generator calls returning, always ends.
C3_AtMostThreeRounds ==
  /\ []C3_Rounds
  /\ [][C3_RoundStep]_vars
  /\ ((pc = "build") ~> (pc # "build"))

\* C3 witness: the third round was the first one with a valid candidate
C3_Witness == Returned /\ attempt = 3

\* C4: the result of buildSuggestions is exactly the valid candidates of
\* the round that returned, all of them, in the order of generation, each
\* formatted message paired with the normalized subject and bullets of the
\* same candidate.
C4_AllValidInOrder ==
  Returned =>
    /\ normalized = RoundOf[scenario][lastOutcome].normalized
    /\ Len(normalized) = candidateCount
    /\ Len(messages) = Cardinality(ValidIndices)
    /\ Len(raw) = Cardinality(ValidIndices)
    /\ \A k \in 1..Len(messages) :
         /\ messages[k] = normalized[NthValid(k)].formatted
         /\ raw[k] = [subject |-> normalized[NthValid(k)].subject,
                      bullets |-> normalized[NthValid(k)].bullets]

\* C4 witness: two candidates returned, after an invalid one between or
\* before them was dropped
C4_Witness ==
  /\ Returned
  /\ Len(messages) >= 2
  /\ \E i, j \in 1..Len(normalized) :
       i < j /\ ~normalized[i].valid /\ normalized[j].valid

\* C5: an accept of content that fails validation stages and commits
\* nothing; it runs buildSuggestions again, manual entry taking over when
\* that throws; the subject, bullets and message under review are replaced
\* by the picked or the manual ones, and the loop is reviewing again.
C5_RejectedAcceptRegenerates ==
  [][/\ (pc = "review" /\ ~validateCommitContent(subject, bullets, config).valid)
          => /\ UNCHANGED <<staged, committed>>
             /\ pc' \in {"review", "aborted", "build"}
     /\ (pc = "review" /\ site' = "accept")
          => /\ ~validateCommitContent(subject, bullets, config).valid
             /\ pc' = "build"
             /\ attempt' = 0
     /\ (site = "accept")
          => /\ UNCHANGED <<staged, committed>>
             /\ pc \in {"build", "pick", "manual"}
             /\ pc' \in {"build", "pick", "manual", "review"}
             /\ (pc' # "review") => (site' = "accept")
             /\ (pc = "build") => (pc' # "review")
             /\ (pc = "pick" /\ pc' = "review")
                  => \E i \in 1..Len(messages) :
                       /\ message' = messages[i]
                       /\ bullets' = raw[i].bullets
                       /\ subject' = FirstLine(messages[i])
                       /\ selectedIndex' = i
             /\ (pc = "manual" /\ pc' = "review")
                  => /\ message' = messages'[1]
                     /\ bullets' = raw'[1].bullets
                     /\ subject' = raw'[1].subject
                     /\ validateCommitContent(subject', bullets', config).valid]_vars

\* C5 witness: after a rejected accept the new suggestions are offered
C5_Witness == pc = "pick" /\ site = "accept" /\ ~staged /\ committed = <<>>

\* C6: when all 3 rounds of buildSuggestions fail, at the initial call, at
\* regenerate or after a rejected accept, the command does not end: manual
\* entry follows, and from manual entry the command goes on to the pick
\* (initial call) or to reviewing.
C6_ExhaustionNotFatal ==
  [][/\ (pc = "build" /\ attempt' = 3 /\ roundValid'[3] = 0)
          => /\ pc' = "manual"
             /\ site' = site
             /\ site \in {"initial", "regenerate", "accept"}
     /\ (pc = "manual")
          => \/ pc' = "manual" /\ site' = site
             \/ pc' = "pick" /\ site = "initial" /\ Len(messages') = 1
             \/ pc' = "review" /\ site \in {"regenerate", "accept"}
     /\ (pc' \in {"exit1", "aborted"}) => (pc \in {"start", "review"})]_vars

\* C6 witness: a rejected accept exhausted its rounds and asks manually
C6_Witness == pc = "manual" /\ site = "accept" /\ roundValid = <<0, 0, 0>>

\* C7: a manual entry is validated by validateCommitContent under the
\* policy of the invocation; an entry that fails is prompted for again,
\* without a limit of its own, and nothing of it is kept; the entry
\* returned is valid and is the normalized input with its formatted
\* message.
C7_ManualUntilValid ==
  [][(pc = "manual")
       => \/ /\ pc' = "manual"
             /\ manualRounds' = manualRounds + 1
             /\ UNCHANGED reviewVars
          \/ /\ pc' \in {"pick", "review"}
             /\ manualRounds' = 0
             /\ Len(raw') = 1
             /\ validateCommitContent(raw'[1].subject, raw'[1].bullets,
                                      config).valid
             /\ \E input \in ManualSubjects(config, insights) :
                  raw'[1].subject = normalizeSubject(input, scopeFallback)
             /\ messages' = <<formatCommit(raw'[1].subject, raw'[1].bullets,
                                           insights.scope, config)>>]_vars

\* C7 witness: manual entry asks again after MaxManualRounds invalid entries
C7_Witness == pc = "manual" /\ manualRounds = MaxManualRounds

\* the request of the remote provider produced nothing to parse
RemoteFailed ==
  \/ Len(provider.apiKey) = 0
  \/ lastOutcome.kind \in {"throw", "not-ok"}
  \/ /\ lastOutcome.kind = "body"
     /\ \/ Len(lastOutcome.content) = 0
        \/ ~parseContent(lastOutcome.content).ok

\* C8: generate of the remote provider never passes a failure on: without
\* a key, on a network error, a non-OK status, an empty content or a
\* content without a subject, its response is the local generator's.
C8_RemoteFailureFallsBack ==
  (attempt > 0 /\ provider.kind = "remote" /\ RemoteFailed)
    => firstResponse = LocalGenerate(insights)

\* C8 witness: a body whose content has no line gave the local response
C8_Witness ==
  /\ attempt > 0
  /\ provider.kind = "remote"
  /\ lastOutcome.kind = "body"
  /\ lastOutcome.content = C_blank
  /\ firstResponse = LocalGenerate(insights)

\* the largest candidate count asked of generateMany
MaxCount == 4

\* generateMany of the remote provider, for each count up to MaxCount:
\* at most one request, and every response after the first is the local
\* generator's
OneCallForAnyCount ==
  \A sc \in ScenarioSet, n \in 0..MaxCount :
    \A o \in OutcomesOf(commandProvider(sc.config, sc.options, sc.env)) :
      (commandProvider(sc.config, sc.options, sc.env).kind = "remote")
        => /\ OpenAiGenerateMany(
                commandProvider(sc.config, sc.options, sc.env).apiKey,
                sc.insights, n, o).calls <= 1
           /\ Len(OpenAiGenerateMany(
                commandProvider(sc.config, sc.options, sc.env).apiKey,
                sc.insights, n, o).responses) <= n
           /\ \A k \in 2..Len(OpenAiGenerateMany(
                commandProvider(sc.config, sc.options, sc.env).apiKey,
                sc.insights, n, o).responses) :
                OpenAiGenerateMany(
                  commandProvider(sc.config, sc.options, sc.env).apiKey,
                  sc.insights, n, o).responses[k]
                  = LocalGenerateMany(sc.insights, n - 1)[k - 1]

\* C9: generateMany of the remote provider issues at most one request
\* whatever the count; the other candidates are the local generator's, so
\* a round of buildSuggestions issues at most one request.
C9_OneRemoteCallPerRound ==
  /\ roundCalls \in {0, 1}
  /\ (roundCalls = 1) => (provider.kind = "remote" /\ Len(provider.apiKey) > 0)
  /\ (attempt > 0 /\ provider.kind = "remote")
       => \A k \in 2..Len(normalized) :
            normalized[k] =
              NormalizeResponse(LocalGenerateMany(insights, candidateCount - 1)[k - 1],
                                config, insights)
  /\ OneCallForAnyCount

\* C9 witness: a round of three candidates that issued its one request
C9_Witness ==
  /\ attempt > 0
  /\ roundCalls = 1
  /\ Len(normalized) = candidateCount
  /\ lastOutcome.kind = "body"

\* neither the configured key nor the provider's own environment fallback
\* (the GITHUB list for github, OPENAI_API_KEY for openai) gives a
\* credential
NoCredential ==
  /\ Len(resolveApiKey(config.apiKey, env)) = 0
  /\ Len(IF config.provider = "github"
         THEN resolveGithubEnvToken(env)
         ELSE EnvGet(env, E_OPENAI_API_KEY)) = 0

\* C10: a remote provider selected without a credential, its configured
\* key and its own environment fallback list giving none, issues no
\* request, and its output is the local generator's.
C10_NoCredentialNoCall ==
  (provider.kind = "remote" /\ NoCredential /\ attempt > 0)
    => /\ roundCalls = 0
       /\ firstResponse = LocalGenerate(insights)

\* C11: the first line of formatCommit's output is never longer than the
\* configured maxSubjectLength, whatever the subject, bullets, scope and
\* style.
C11_FirstLineWithinLimit ==
  (probe.op = "formatCommit" /\ probe.done)
    => Len(FirstLine(probe.out)) <= SubjectLimit(probe.args.config)

\* the subject has the conventional shape, an allowed type and, for feat
\* and fix, a scope
CompliantShape(s) ==
  /\ parseSubject(s).ok
  /\ parseSubject(s).type \in ALLOWED_TYPES
  /\ (parseSubject(s).type \in {T_feat, T_fix}) => (Len(parseSubject(s).scope) > 0)

\* C12: normalizeSubject is idempotent on conventional-shaped subjects with
\* a compliant type and scope: normalizing its result again, with the
\* same fallback, changes nothing.
C12_NormalizeIdempotent ==
  (probe.op = "normalizeSubject" /\ probe.done /\ CompliantShape(probe.args.subject))
    => normalizeSubject(probe.out, probe.args.fallback) = probe.out

\* the subject starts with a recognized type, written as the formatter
\* lists it, in the shape type[(scope)][!]: description
HasRecognizedType(s) ==
  /\ parseSubject(s).ok
  /\ parseSubject(s).type \in CONVENTIONAL_TYPES
  /\ StartsWith(s, parseSubject(s).type)

\* C13: under conventional style formatCommit prepends chore(scope): only
\* to a subject without a recognized leading type; a subject with one,
\* the breaking forms type(scope)!: and type!: included, keeps its type
\* and its breaking marker at the head of the first line.
C13_KeepsRecognizedType ==
  (probe.op = "formatCommit" /\ probe.done
     /\ probe.args.config.style = "conventional")
    => IF HasRecognizedType(probe.args.subject)
       THEN /\ parseSubject(FirstLine(probe.out)).ok
            /\ parseSubject(FirstLine(probe.out)).type
                 = parseSubject(probe.args.subject).type
            /\ parseSubject(FirstLine(probe.out)).breaking
                 = parseSubject(probe.args.subject).breaking
       ELSE StartsWith(FirstLine(probe.out), T_chore)

\* C14: every allowed type is accepted: a subject type(scope): description
\* of an allowed type, within the length limit, with a compliant scope and
\* description and compliant bullets, is valid with no reasons.
C14_AllowedTypesAccepted ==
  (probe.op = "validateCommitContent" /\ probe.done
     /\ probe.args.subject \in AllowedTypeSubjects
     /\ Len(probe.args.subject) <= SubjectLimit(probe.args.config)
     /\ Len(probe.args.bullets) <= BulletLimit(probe.args.config))
    => (probe.out.valid /\ probe.out.reasons = <<>>)

\* 'chore(core): update stuff'
U_choreCoreUpdateStuff == <<"c","h","o","r","e","(","c","o","r","e",")",":"," ","u","p","d","a","t","e"," ","s","t","u","f","f">>

\* normalizeSubject("update stuff", "core") has been applied
NormalizedUpdateStuff ==
  /\ probe.op = "normalizeSubject" /\ probe.done
  /\ probe.args.subject = IN_updateStuff
  /\ probe.args.fallback = S_core

\* the validator has been applied to "chore(core): update stuff"
ValidatedUpdateStuff ==
  /\ probe.op = "validateCommitContent" /\ probe.done
  /\ probe.args.subject = U_choreCoreUpdateStuff

U_featCoreRetry == <<"f","e","a","t","(","c","o","r","e",")",":"," ","a","d","d"," ","r","e","t","r","y"," ","s","u","p","p","o","r","t">>

\* the subject is of type feat or fix and carries no scope
BareFeatOrFix(s) ==
  /\ parseSubject(s).ok
  /\ parseSubject(s).type \in {T_feat, T_fix}
  /\ Len(parseSubject(s).scope) = 0

AnalyzedOnly(path) ==
  /\ probe.op = "analyzeDiff" /\ probe.done
  /\ Len(probe.args.touched) = 1
  /\ probe.args.touched[1].path = path

\* C17: a diff touching only server/api/routes/users.ts yields scope api.
C17_UsersRouteIsApi ==
  AnalyzedOnly(D_usersTs) => (probe.out.scope = Q_api)

\* the scope of the i-th touched file taken alone
TouchedScope(i) == ScopeOfPath(ToLower(probe.args.touched[i].path))

\* C18: the first touched path, in diff order, that matches a rule decides
\* the scope, later paths never override it and no match gives undefined;
\* the rules give ui, front, api and build as on the paths of the inputs,
\* and a diff touching only src/components/Button.tsx gives scope ui and
\* isFrontend true.
C18_FirstMatchingPathWins ==
  /\ (probe.op = "analyzeDiff" /\ probe.done)
       => /\ \A i \in 1..Len(probe.args.touched) :
               (/\ Len(TouchedScope(i)) > 0
                /\ \A j \in 1..(i - 1) : Len(TouchedScope(j)) = 0)
                 => (probe.out.scope = TouchedScope(i))
          /\ (\A i \in 1..Len(probe.args.touched) : Len(TouchedScope(i)) = 0)
               => (probe.out.scope = <<>>)
  /\ AnalyzedOnly(D_buttonTsx) => (probe.out.scope = W_ui /\ probe.out.isFrontend)
  /\ AnalyzedOnly(D_appJs) => (probe.out.scope = Q_front)
  /\ AnalyzedOnly(D_handlerPy) => (probe.out.scope = Q_api)
  /\ AnalyzedOnly(D_viteJson) => (probe.out.scope = T_build)
  /\ AnalyzedOnly(D_guideMd) => (probe.out.scope = <<>>)

\* C18 witness: the second path alone would give another scope than the
\* first, and the first decided
C18_Witness ==
  /\ probe.op = "analyzeDiff" /\ probe.done
  /\ Len(probe.args.touched) = 2
  /\ Len(TouchedScope(1)) > 0 /\ Len(TouchedScope(2)) > 0
  /\ TouchedScope(1) # TouchedScope(2)
  /\ probe.out.scope = TouchedScope(1)

\* C19: filesTouched is the number of distinct touched paths, a file that
\* has both a "--- a/path" and a "+++ b/path" line being counted once.
C19_FilesTouchedDistinct ==
  (probe.op = "analyzeDiff" /\ probe.done)
    => probe.out.filesTouched
         = Cardinality({probe.args.touched[i].path :
                          i \in 1..Len(probe.args.touched)})

\* getProvider has been applied to a call whose --offline flag or whose
\* configuration asks for the offline mode
AskedOffline ==
  /\ probe.op = "getProvider"
  /\ probe.done
  /\ (probe.args.flag = "true" \/ probe.args.config.offline = "true")

C21_AbortFrame ==
  [][/\ (pc' = "aborted" /\ pc # "aborted")
          => /\ pc = "review"
             /\ ~staged'
             /\ committed' = <<>>
             /\ UNCHANGED <<staged, committed>>
     /\ AbortConfirmed => (pc' = "aborted" /\ ~staged' /\ committed' = <<>>)
     /\ AbortDeclined
          => /\ pc' = "review"
             /\ UNCHANGED <<subject, bullets, message, staged, committed>>]_vars

\* C21 witness: an edited message was under review when the operator
\* confirmed the abort
C21_Witness ==
  /\ pc = "aborted"
  /\ ~staged
  /\ committed = <<>>
  /\ message # messages[selectedIndex]

\* the review loop of commandCommit is running: reviewing, or inside a
\* regenerate or a rejected accept
InLoop ==
  \/ pc = "review"
  \/ pc \in {"build", "pick", "manual"} /\ site \in {"regenerate", "accept"}

\* the steps of the loop that go on reviewing: edit-subject, edit-bullets
\* and a declined abort stay in reviewing; regenerate and a rejected accept
\* enter buildSuggestions, from where only reviewing follows
BackToReviewing ==
  /\ (EditSubject \/ EditBullets \/ AbortDeclined) => (pc' = "review")
  /\ (Regenerate \/ AcceptRejected) => (pc' = "build" /\ InLoop')
  /\ (InLoop /\ pc # "review") => InLoop'

\* C22 as stated: the review loop ends only in committed, skipped or
\* confirmed-abort, everything else leads back to reviewing, and the loop
\* has no other exit.
C22_OnlyListedExits ==
  [][/\ InLoop => (InLoop' \/ pc' \in {"committed", "aborted"})
     /\ BackToReviewing]_vars

\* C22, amended: the review loop ends only in committed, skipped or
\* confirmed-abort, or in the fatal exit of a validated accept whose stage
\* or commit command fails, nothing being committed then; everything else
\* leads back to reviewing.
C22_ExitsOfTheLoop ==
  [][/\ InLoop => \/ InLoop'
                  \/ pc' \in {"committed", "aborted"}
                  \/ /\ pc' = "exit1"
                     /\ pc = "review"
                     /\ validateCommitContent(subject, bullets, config).valid
                     /\ committed' = committed
     /\ BackToReviewing]_vars

\* C22 witness: the commit command failed after stageAll had run, and the
\* command ended with an error
C22_Witness ==
  /\ pc = "exit1"
  /\ selectedIndex > 0
  /\ staged
  /\ committed = <<>>

\* the working directory is no repository, or has neither staged nor
\* unstaged changes that are not ignored
PreconditionFails == ~repo.isRepo \/ repo.changes = "none"

\* no generation round, no prompt, no stage and no commit has taken place
NothingDone ==
  /\ attempt = 0
  /\ roundValid = <<>>
  /\ roundCalls = 0
  /\ messages = <<>>
  /\ selectedIndex = 0
  /\ manualRounds = 0
  /\ ~staged
  /\ committed = <<>>

\* C23: when the working directory is not a repository or has no change to
\* commit, the command's only step is the exit with status 1, and no
\* generation round, prompt, stage or commit takes place before or after.
C23_PreconditionFatal ==
  /\ [](PreconditionFails => (pc \in {"start", "exit1"} /\ NothingDone))
  /\ [][(PreconditionFails /\ pc = "start") => (pc' = "exit1" /\ NothingDone')]_vars
  /\ [][(pc = "start" /\ pc' = "exit1") => PreconditionFails]_vars

\* C23 witness: a repository without changes made the command exit
C23_Witness ==
  /\ pc = "exit1"
  /\ repo.isRepo
  /\ repo.changes = "none"
  /\ NothingDone

\* the mock generator has been called twice with the same request
MockCalledTwice ==
  /\ probe.op \in {"MockAiProvider.generateMany", "MockAiProvider.generate"}
  /\ probe.done

\* C24: the mock generator is deterministic: two calls with the same
\* request return the same subjects and bullets, and the subject of
\* candidate i (from 0) starts with the verb at index i modulo the size of
\* the vocabulary.
C24_MockDeterministic ==
  MockCalledTwice =>
    /\ probe.out.first = probe.out.second
    /\ \A i \in 1..Len(probe.out.first) :
         StartsWith(probe.out.first[i].subject,
                    probe.out.vocabulary[((i - 1) % Len(probe.out.vocabulary)) + 1]
                      \o <<" ">>)

\* C25: scoreCommit gives the conventional-style detail 15 points when the
\* first line of the message starts with a recognized type, with or without
\* a scope in parentheses, followed by a colon, and 5 points otherwise.
C25_ScoresTypePrefix ==
  (probe.op = "scoreCommit" /\ probe.done) =>
    (probe.out.details.conventionalStyle
       = IF conventionalRegex(FirstLine(probe.args.message)) THEN 15 ELSE 5)

\* a bullet matches none of the artifact, file-mention and path patterns
NoArtifactOrFile(b) == ~containsArtifacts(b) /\ ~FILE_MENTION(b) /\ ~PATH_MENTION(b)

\* the trimmed entries of a list that the sanitization keeps, in order, cut
\* to max(1, limit) entries
Sanitized(list, limit) == SubSeq(SelectSeq(TrimAll(list), BulletKept), 1,
                                 Min(Max(1, limit), Len(SelectSeq(TrimAll(list), BulletKept))))

\* buildSuggestions has normalized one response
CandidateNormalized == probe.op = "buildSuggestions.normalized" /\ probe.done

\* C26: the bullets of a candidate of buildSuggestions are the generator's
\* bullets after sanitization when that list is not empty, and otherwise
\* the sanitized bullet candidates of the diff; there are at most
\* max(1, bulletLimit) of them and none matches an artifact, file-mention or
\* path pattern.
C26_CandidateBullets ==
  CandidateNormalized =>
    /\ probe.out.bullets =
         IF Sanitized(probe.args.response.bullets, BulletLimit(probe.args.config)) # <<>>
         THEN Sanitized(probe.args.response.bullets, BulletLimit(probe.args.config))
         ELSE Sanitized(probe.args.insights.bulletPoints, BulletLimit(probe.args.config))
    /\ Len(probe.out.bullets) <= Max(1, BulletLimit(probe.args.config))
    /\ \A i \in 1..Len(probe.out.bullets) : NoArtifactOrFile(probe.out.bullets[i])

\* C26 witness: the generator's bullets were all dropped by the
\* sanitization and the diff's bullet candidates, cut to the limit, are used
C26_Witness ==
  /\ CandidateNormalized
  /\ Len(probe.args.response.bullets) > 0
  /\ Sanitized(probe.args.response.bullets, BulletLimit(probe.args.config)) = <<>>
  /\ Len(probe.out.bullets) = Max(1, BulletLimit(probe.args.config))
  /\ Len(probe.args.insights.bulletPoints) > Len(probe.out.bullets)

\* C27: whenever the accept step hands a message to commitMessage, the
\* first line of that message passes validateCommitContent with the
\* bullets under review, its length being within maxSubjectLength.
C27_CommittedTextValid ==
  [][(committed' # committed)
       => /\ committed' = Append(committed, message)
          /\ validateCommitContent(FirstLine(message), bullets, config).valid
          /\ Len(FirstLine(message)) <= SubjectLimit(config)]_vars

\* C28: the commit made by a validated accept contains exactly the changes
\* whose diff was analysed: with staged changes present, the staged changes
\* and nothing else.
C28_CommitsWhatWasAnalysed ==
  (pc = "committed") => (CommitContents(repo, staged) = collectDiff(repo))

\* messages and raw have the same length and messages[i] is the formatting
\* of raw[i]
Aligned ==
  /\ Len(messages) = Len(raw)
  /\ \A i \in 1..Len(messages) :
       messages[i] = formatCommit(raw[i].subject, raw[i].bullets, insights.scope, config)

\* C29: whenever buildSuggestions has returned (or manual entry has taken
\* its place) and pickSuggestion asks, messages and raw are non-empty, of
\* equal length and index-aligned, and the picked index selects an existing
\* raw entry, whose bullets come under review; this holds after the initial
\* call, after regenerate and after a rejected accept.
C29_MessagesAlignedWithRaw ==
  /\ []((pc = "pick") => (Len(messages) > 0 /\ Aligned))
  /\ [][(pc = "pick" /\ pc' = "review")
          => /\ selectedIndex' \in 1..Len(raw)
             /\ selectedIndex' \in 1..Len(messages)
             /\ message' = messages[selectedIndex']
             /\ bullets' = raw[selectedIndex'].bullets]_vars

\* C29 witness: more than one suggestion was returned and the last one was
\* picked and is under review
C29_Witness ==
  /\ pc = "review"
  /\ Aligned
  /\ Len(raw) > 1
  /\ selectedIndex = Len(raw)
  /\ bullets = raw[selectedIndex].bullets
  /\ message = messages[selectedIndex]

\* the generator in use answers from the insights alone: the local one or
\* the index-seeded mock
Deterministic == provider.kind \in {"local", "mock"}

====
